---- MODULE Spec2Model ----
(***************************************************************************)
(* Model of ts-analyzer's diagnostic parser (src/src/parser.rs) and        *)
(* suggestion synthesis engine (src/src/suggestion.rs).                    *)
(*                                                                         *)
(* A Rust string is modelled as the sequence of its characters, each a     *)
(* one-character TLA+ string; "ESC" stands for the single character        *)
(* U+001B and "BACKTICK" for U+0060, which a TLA+ string cannot hold.      *)
(* Option<T> is a sequence of length at most one: None is <<>>, Some(x) is *)
(* <<x>>.                                                                  *)
(*                                                                         *)
(* A usize (64 bits) is held in its two's-complement reading: n stands for *)
(* itself when n < 2^63 and 2^64 - k is held as -k, so usize::MAX is -1.   *)
(* Wrapping addition and subtraction are then + and - on the readings, and *)
(* the unsigned order is ULess. The inputs stay within 2^31 of either end  *)
(* of the range, where these readings are exact.                           *)
(***************************************************************************)
EXTENDS Integers, Sequences, FiniteSets, TLC

VARIABLES
    colorize,         \* colored's process-wide switch (tty / NO_COLOR / CLICOLOR)
    overflow_checks,  \* rustc's overflow-checks setting of the build
    pc,               \* "idle" | "parsed" | "built" | "classified"
    parts,            \* the pieces the last input line was made of (<<>> when none)
    line_in,          \* the last input line handed to parse
    err,              \* Option<TsError>: parse's result, or a caller-built TsError
    tokens,           \* the token slice handed to build
    order,            \* the iteration order the HashMap of expected properties had
    result,           \* outcome of Suggestion::build
    code_in,          \* the code string handed to from_code
    kind,             \* Option<CommonErrors>: from_code's result
    shown             \* kind's Display text

vars == <<colorize, overflow_checks, pc, parts, line_in, err, tokens, order, result,
          code_in, kind, shown>>

(***************************************************************************)
(* Bounds of the model.                                                    *)
(***************************************************************************)
\* Coordinates written in input lines, and error/token columns, range over 0..MaxCoord
\* (and hold usize::MAX and usize::MAX - 1 besides).
MaxCoord == 3
\* Lines of errors and tokens range over 1..MaxLine.
MaxLine == 2
\* Token slices have at most MaxTokens tokens.
MaxTokens == 2

(***************************************************************************)
(* Option and string primitives (Rust core / alloc).                       *)
(***************************************************************************)
None == <<>>
Some(x) == <<x>>
IsSome(o) == Len(o) = 1
Unwrap(o) == o[1]

\* s[i..] for a 1-based i
Drop(s, i) == SubSeq(s, i, Len(s))
\* s[..i) for a 1-based i
Take(s, i) == SubSeq(s, 1, i - 1)

\* str::starts_with at offset i
MatchesAt(s, pat, i) ==
    /\ i >= 1
    /\ i + Len(pat) - 1 <= Len(s)
    /\ SubSeq(s, i, i + Len(pat) - 1) = pat

RECURSIVE FindFrom(_, _, _)
FindFrom(s, pat, i) ==
    IF i + Len(pat) - 1 > Len(s) THEN 0
    ELSE IF MatchesAt(s, pat, i) THEN i
    ELSE FindFrom(s, pat, i + 1)

\* str::find: 1-based index of the first occurrence of pat, 0 when there is none
find(s, pat) == FindFrom(s, pat, 1)

RECURSIVE RFindFrom(_, _, _)
RFindFrom(s, pat, i) ==
    IF i < 1 THEN 0
    ELSE IF MatchesAt(s, pat, i) THEN i
    ELSE RFindFrom(s, pat, i - 1)

\* str::rfind: 1-based index of the last occurrence of pat, 0 when there is none
rfind(s, pat) == RFindFrom(s, pat, Len(s) - Len(pat) + 1)

\* str::split_once: Some(<<before, after>>) around the first occurrence of pat
split_once(s, pat) ==
    LET i == find(s, pat)
    IN  IF i = 0 THEN None
        ELSE Some(<<Take(s, i), Drop(s, i + Len(pat))>>)

RECURSIVE SplitFrom(_, _, _)
SplitFrom(s, ch, acc) ==
    IF s = <<>> THEN <<acc>>
    ELSE IF Head(s) = ch THEN <<acc>> \o SplitFrom(Tail(s), ch, <<>>)
    ELSE SplitFrom(Tail(s), ch, Append(acc, Head(s)))

\* str::split(char) collected: the parts between occurrences of ch ("" gives one empty part)
split(s, ch) == SplitFrom(s, ch, <<>>)

\* Iterator::nth(n) (0-based) followed by unwrap_or(default)
nth_or(items, n, default) ==
    IF n + 1 <= Len(items) THEN items[n + 1] ELSE default

\* the characters with the Unicode property White_Space, which char::is_whitespace
\* tests; those a TLA+ string cannot hold stand as their code point
WhiteSpace ==
    {" ", "\t", "\n", "\r", "\f", "U+000B", "U+0085", "U+00A0", "U+1680", "U+2000",
     "U+2001", "U+2002", "U+2003", "U+2004", "U+2005", "U+2006", "U+2007", "U+2008",
     "U+2009", "U+200A", "U+2028", "U+2029", "U+202F", "U+205F", "U+3000"}
IsWhite(c) == c \in WhiteSpace

RECURSIVE trim_start(_)
trim_start(s) ==
    IF s # <<>> /\ IsWhite(Head(s)) THEN trim_start(Tail(s)) ELSE s

RECURSIVE trim_end(_)
trim_end(s) ==
    IF s # <<>> /\ IsWhite(s[Len(s)]) THEN trim_end(SubSeq(s, 1, Len(s) - 1)) ELSE s

\* str::trim
trim(s) == trim_end(trim_start(s))

(***************************************************************************)
(* usize::from_str_radix(_, 10).ok() on a 64-bit target.                   *)
(***************************************************************************)
Digits == <<"0", "1", "2", "3", "4", "5", "6", "7", "8", "9">>
IsDigit(c) == \E d \in 1..10 : Digits[d] = c
DigitVal(c) == (CHOOSE d \in 1..10 : Digits[d] = c) - 1

\* usize::MAX = 2^64 - 1 as decimal text
USIZE_MAX_TEXT == <<"1","8","4","4","6","7","4","4","0","7","3","7","0","9","5","5","1","6","1","5">>

RECURSIVE StripZeros(_)
StripZeros(s) ==
    IF s # <<>> /\ Head(s) = "0" THEN StripZeros(Tail(s)) ELSE s

RECURSIVE DecimalGreater(_, _)
\* a > b for two digit strings of equal length
DecimalGreater(a, b) ==
    IF a = <<>> THEN FALSE
    ELSE IF Head(a) # Head(b) THEN DigitVal(Head(a)) > DigitVal(Head(b))
    ELSE DecimalGreater(Tail(a), Tail(b))

\* the checked multiply-add of the accumulation fails: the value exceeds usize::MAX
Overflows(digits) ==
    LET d == StripZeros(digits)
    IN  \/ Len(d) > Len(USIZE_MAX_TEXT)
        \/ Len(d) = Len(USIZE_MAX_TEXT) /\ DecimalGreater(d, USIZE_MAX_TEXT)

RECURSIVE Accumulate(_, _)
Accumulate(digits, acc) ==
    IF digits = <<>> THEN acc
    ELSE Accumulate(Tail(digits), acc * 10 + DigitVal(Head(digits)))

RECURSIVE SubtractDigits(_, _, _)
\* a - b - borrow for digit strings of equal length, a the greater: the difference, of
\* the same length, worked from the last digit on
SubtractDigits(a, b, borrow) ==
    IF a = <<>> THEN <<>>
    ELSE LET d == DigitVal(a[Len(a)]) - DigitVal(b[Len(b)]) - borrow
         IN  Append(SubtractDigits(SubSeq(a, 1, Len(a) - 1), SubSeq(b, 1, Len(b) - 1),
                                   IF d < 0 THEN 1 ELSE 0),
                    Digits[(IF d < 0 THEN d + 10 ELSE d) + 1])

\* the digit string s with zeros put before it up to the length n
PadZeros(s, n) == [i \in 1..n |-> IF i <= n - Len(s) THEN "0" ELSE s[i - (n - Len(s))]]

\* usize::MAX - value as decimal text, value given as decimal text
BelowMax(digits) ==
    StripZeros(SubtractDigits(USIZE_MAX_TEXT,
                              PadZeros(StripZeros(digits), Len(USIZE_MAX_TEXT)), 0))

\* 2^31 - 1 as decimal text: the values up to it are their own reading
HALF_RANGE_TEXT == <<"2","1","4","7","4","8","3","6","4","7">>
\* the digit string, free of leading zeros, is of a value up to 2^31 - 1
NearZero(d) ==
    \/ Len(d) < Len(HALF_RANGE_TEXT)
    \/ Len(d) = Len(HALF_RANGE_TEXT) /\ ~DecimalGreater(d, HALF_RANGE_TEXT)

\* the usize the accumulation ends with, in the two's-complement reading: the value
\* itself up to 2^31 - 1, and -(usize::MAX - value) - 1 for a value near usize::MAX
AsUsize(digits) ==
    IF NearZero(StripZeros(digits)) THEN Accumulate(StripZeros(digits), 0)
    ELSE 0 - Accumulate(BelowMax(digits), 0) - 1

\* usize::MAX and the unsigned order, in the two's-complement reading
USIZE_MAX == 0 - 1
ULess(a, b) == IF (a < 0) = (b < 0) THEN a < b ELSE b < 0

\* An empty string, a lone sign, a non-digit and an overflow are errors; one leading
\* "+" is accepted, a leading "-" is not (the type is unsigned).
from_str_radix(src) ==
    IF src = <<>> THEN None
    ELSE IF Len(src) = 1 /\ Head(src) \in {"+", "-"} THEN None
    ELSE LET digits == IF Head(src) = "+" THEN Tail(src) ELSE src
         IN  IF \E i \in 1..Len(digits) : ~IsDigit(digits[i]) THEN None
             ELSE IF Overflows(digits) THEN None
             ELSE Some(AsUsize(digits))

(***************************************************************************)
(* CommonErrors: from_code and Display (parser.rs).                        *)
(* A category is [tag |-> variant name, code |-> payload], the payload     *)
(* being the stored string of Unsupported and <<>> otherwise.              *)
(***************************************************************************)
Known(tag) == [tag |-> tag, code |-> <<>>]
Unsupported(code) == [tag |-> "Unsupported", code |-> code]

\* the match arms of from_code, in source order: <<code string, variant>>
CodeTable == <<
    << <<"T","S","2","3","2","2">>, "TypeMismatch">>,
    << <<"T","S","2","3","4","5">>, "InlineTypeMismatch">>,
    << <<"T","S","2","5","5","4">>, "MissingParameters">>,
    << <<"T","S","7","0","0","6">>, "NoImplicitAny">>,
    << <<"T","S","7","0","4","4">>, "NoImplicitAny">>,
    << <<"T","S","2","7","4","1">>, "PropertyMissingInType">>,
    << <<"T","S","2","3","6","7">>, "UnintentionalComparison">>,
    << <<"T","S","1","8","0","4","6">>, "ObjectIsUnknown">>,
    << <<"T","S","2","3","3","9">>, "PropertyDoesNotExist">>,
    << <<"T","S","2","5","3","2">>, "ObjectIsPossiblyUndefined">>,
    << <<"T","S","1","8","0","4","8">>, "ObjectIsPossiblyUndefined">>,
    << <<"T","S","2","5","3","1">>, "ObjectIsPossiblyNull">>,
    << <<"T","S","1","8","0","4","7">>, "ObjectIsPossiblyNull">>,
    << <<"T","S","2","3","5","2">>, "DirectCastPotentiallyMistaken">>,
    << <<"T","S","2","5","5","6">>, "SpreadArgumentMustBeTupleType">>,
    << <<"T","S","2","3","6","3">>, "RightSideArithmeticMustBeNumber">>,
    << <<"T","S","2","3","9","4">>, "IncompatibleOverload">>,
    << <<"T","S","2","4","5","1">>, "InvalidShadowInScope">>,
    << <<"T","S","2","3","0","7">>, "NonExistentModuleImport">>,
    << <<"T","S","2","5","4","0">>, "ReadonlyPropertyAssignment">>,
    << <<"T","S","2","4","2","0">>, "IncorrectInterfaceImplementation">> >>

RECURSIVE MatchCode(_, _)
\* the first arm from arm i on whose pattern equals code; the catch-all arm otherwise
MatchCode(code, i) ==
    IF i > Len(CodeTable) THEN Unsupported(code)
    ELSE IF CodeTable[i][1] = code THEN Known(CodeTable[i][2])
    ELSE MatchCode(code, i + 1)

from_code_trimming(code) == MatchCode(trim(code), 1)

from_code(code) == MatchCode(code, 1)

\* the match arms of Display::fmt, in source order: <<variant, text written>>
DisplayTable == <<
    <<"TypeMismatch", <<"T","S","2","3","2","2">> >>,
    <<"InlineTypeMismatch", <<"T","S","2","3","4","5">> >>,
    <<"MissingParameters", <<"T","S","2","5","5","4">> >>,
    <<"NoImplicitAny", <<"T","S","7","0","0","6">> >>,
    <<"PropertyMissingInType", <<"T","S","2","7","4","1">> >>,
    <<"UnintentionalComparison", <<"T","S","2","3","6","7">> >>,
    <<"PropertyDoesNotExist", <<"T","S","2","3","3","9">> >>,
    <<"ObjectIsPossiblyUndefined", <<"T","S","2","5","3","2">> >>,
    <<"ObjectIsPossiblyNull", <<"T","S","2","5","3","1">> >>,
    <<"ObjectIsUnknown", <<"T","S","1","8","0","4","6">> >>,
    <<"DirectCastPotentiallyMistaken", <<"T","S","2","3","5","2">> >>,
    <<"SpreadArgumentMustBeTupleType", <<"T","S","2","5","5","6">> >>,
    <<"RightSideArithmeticMustBeNumber", <<"T","S","2","3","6","3">> >>,
    <<"IncompatibleOverload", <<"T","S","2","3","9","4">> >>,
    <<"InvalidShadowInScope", <<"T","S","2","4","5","1">> >>,
    <<"NonExistentModuleImport", <<"T","S","2","3","0","7">> >>,
    <<"ReadonlyPropertyAssignment", <<"T","S","2","5","4","0">> >>,
    <<"IncorrectInterfaceImplementation", <<"T","S","2","4","2","0">> >> >>

RECURSIVE MatchVariant(_, _)
MatchVariant(k, i) ==
    IF k.tag = "Unsupported" THEN k.code
    ELSE IF DisplayTable[i][1] = k.tag THEN DisplayTable[i][2]
    ELSE MatchVariant(k, i + 1)

fmt_writing_last_alias(k) ==
    IF k.tag = "NoImplicitAny" THEN <<"T","S","7","0","4","4">> ELSE MatchVariant(k, 1)

\* impl Display for CommonErrors (to_string)
fmt(k) == MatchVariant(k, 1)

(***************************************************************************)
(* parse (parser.rs).                                                      *)
(***************************************************************************)
TsError(file, line, column, code, message) ==
    [file |-> file, line |-> line, column |-> column, code |-> code, message |-> message]

parse_splitting_at_last_colon(line) ==
    LET s1 == split_once(line, <<"(">>)
    IN  IF ~IsSome(s1) THEN None ELSE
        LET file == Unwrap(s1)[1]
            s2   == split_once(Unwrap(s1)[2], <<")",":"," ","e","r","r","o","r"," ">>)
        IN  IF ~IsSome(s2) THEN None ELSE
            LET s3 == split_once(Unwrap(s2)[1], <<",">>)
            IN  IF ~IsSome(s3) THEN None ELSE
                LET rest == Unwrap(s2)[2]
                    i    == rfind(rest, <<":"," ">>)
                IN  IF i = 0 THEN None ELSE
                    LET l == from_str_radix(Unwrap(s3)[1])
                        c == from_str_radix(Unwrap(s3)[2])
                    IN  IF ~IsSome(l) \/ ~IsSome(c) THEN None
                        ELSE Some(TsError(file, Unwrap(l), Unwrap(c),
                                          from_code(Take(rest, i)), Drop(rest, i + 2)))

parse(line) ==
    LET s1 == split_once(line, <<"(">>)
    IN  IF ~IsSome(s1) THEN None ELSE
        LET file == Unwrap(s1)[1]
            s2   == split_once(Unwrap(s1)[2], <<")",":"," ","e","r","r","o","r"," ">>)
        IN  IF ~IsSome(s2) THEN None ELSE
            LET s3 == split_once(Unwrap(s2)[1], <<",">>)
            IN  IF ~IsSome(s3) THEN None ELSE
                LET s4 == split_once(Unwrap(s2)[2], <<":"," ">>)
                IN  IF ~IsSome(s4) THEN None ELSE
                    LET l == from_str_radix(Unwrap(s3)[1])
                    IN  IF ~IsSome(l) THEN None ELSE
                        LET c == from_str_radix(Unwrap(s3)[2])
                        IN  IF ~IsSome(c) THEN None
                            ELSE Some(TsError(file, Unwrap(l), Unwrap(c),
                                              from_code(Unwrap(s4)[1]), Unwrap(s4)[2]))

(***************************************************************************)
(* Suggestion synthesis (suggestion.rs).                                   *)
(*                                                                         *)
(* A call of build either returns an Option<Suggestion> or panics; for a   *)
(* variant the match of build has no arm for, there is no code to run.     *)
(***************************************************************************)
Returned(v) == [outcome |-> "returned", value |-> v]
Panicked == [outcome |-> "panicked", value |-> None]
NoMatchArm == [outcome |-> "no_match_arm", value |-> None]

Suggestion(suggestions, help) == [suggestions |-> suggestions, help |-> help]

\* format!: the pieces written one after the other
RECURSIVE Concat(_)
Concat(pieces) ==
    IF pieces = <<>> THEN <<>> ELSE Head(pieces) \o Concat(Tail(pieces))

\* colored: Display of a ColoredString with the given SGR parameters.  With colouring
\* off the text is written plain; with it on, between ESC[<sgr>m and ESC[0m (the texts
\* styled here hold no reset sequence of their own).
Styled(text, sgr) ==
    IF colorize THEN <<"ESC", "[">> \o sgr \o <<"m">> \o text \o <<"ESC", "[", "0", "m">>
    ELSE text
red_bold(text) == Styled(text, <<"1",";","3","1">>)
green_bold(text) == Styled(text, <<"1",";","3","2">>)
yellow_bold(text) == Styled(text, <<"1",";","3","3">>)
red_bold_italic(text) == Styled(text, <<"1",";","3",";","3","1">>)

\* err.message.split('\'').nth(n).unwrap_or(default)
quoted(e, n, default) == nth_or(split(e.message, "'"), n, default)

\* first index >= i of s holding ch, 0 when there is none
RECURSIVE NextChar(_, _, _)
NextChar(s, ch, i) ==
    IF i > Len(s) THEN 0
    ELSE IF s[i] = ch THEN i
    ELSE NextChar(s, ch, i + 1)

\* the text from index i up to the next quote, or to the end when there is none
UpToQuote(s, i) ==
    LET j == NextChar(s, "'", i)
    IN  IF j = 0 THEN Drop(s, i) ELSE SubSeq(s, i, j - 1)

\* the lookahead of parse_ts2322_error: the characters from index q on are compared
\* with y, p, e, blank, quote in turn; running out of input before a mismatch leaves
\* the whole function through `?`
RECURSIVE Lookahead(_, _, _)
Lookahead(msg, q, k) ==
    LET pat == <<"y","p","e"," ","'">>
    IN  IF k > Len(pat) THEN "match"
        ELSE IF q + k - 1 > Len(msg) THEN "exhausted"
        ELSE IF msg[q + k - 1] = pat[k] THEN Lookahead(msg, q, k + 1)
        ELSE "mismatch"

RECURSIVE Scan2322(_, _)
\* the outer loop of parse_ts2322_error with the iterator at index pos
Scan2322(msg, pos) ==
    IF pos > Len(msg) THEN None
    ELSE LET q == pos + 1
             look == Lookahead(msg, q, 1)
         IN  IF look = "exhausted" THEN None
             ELSE IF look = "mismatch" THEN Scan2322(msg, q)
             ELSE LET start == q + 5
                      from == UpToQuote(msg, start)
                      closing == NextChar(msg, "'", start)
                      opening == IF closing = 0 THEN 0 ELSE NextChar(msg, "'", closing + 1)
                  IN  IF opening = 0 THEN None
                      ELSE Some(<<from, UpToQuote(msg, opening + 1)>>)

parse_ts2322_error(msg) == Scan2322(msg, 1)

type_mismatch_2322_target_first(e) ==
    LET p == parse_ts2322_error(e.message)
    IN  IF IsSome(p)
        THEN Some(Concat(<< <<"T","r","y"," ","c","o","n","v","e","r","t","i","n","g"," ","t","h","i","s"," ","v","a","l","u","e"," ","f","r","o","m"," ","BACKTICK">>, red_bold(Unwrap(p)[2]),
                           <<"BACKTICK"," ","t","o"," ","BACKTICK">>, green_bold(Unwrap(p)[1]), <<"BACKTICK",".">> >>))
        ELSE None

type_mismatch_2322(e) ==
    LET p == parse_ts2322_error(e.message)
    IN  IF IsSome(p)
        THEN Some(Concat(<< <<"T","r","y"," ","c","o","n","v","e","r","t","i","n","g"," ","t","h","i","s"," ","v","a","l","u","e"," ","f","r","o","m"," ","BACKTICK">>, red_bold(Unwrap(p)[1]),
                           <<"BACKTICK"," ","t","o"," ","BACKTICK">>, green_bold(Unwrap(p)[2]), <<"BACKTICK",".">> >>))
        ELSE None

parse_property_missing_error(msg) ==
    LET type_marker == <<"t","y","p","e"," ","'">>
        start_index == rfind(msg, type_marker)
    IN  IF start_index = 0 THEN None
        ELSE LET rest_of_msg == Drop(msg, start_index + Len(type_marker))
                 end_index == find(rest_of_msg, <<"'">>)
             IN  IF end_index = 0 THEN None ELSE Some(Take(rest_of_msg, end_index))

extract_object_type(msg, marker) ==
    LET i == find(msg, marker)
    IN  IF i = 0 THEN None
        ELSE LET rest == Drop(msg, i + Len(marker))
                 end == find(rest, <<"'">>)
             IN  IF end = 0 THEN None ELSE Some(Take(rest, end))

\* HashMap::insert: a map is a function from its keys
Insert(m, k, v) == [x \in (DOMAIN m) \cup {k} |-> IF x = k THEN v ELSE m[x]]
EmptyMap == [x \in {} |-> <<>>]

RECURSIVE InsertClauses_stopping_at_blank(_, _)
InsertClauses_stopping_at_blank(clauses, props) ==
    IF clauses = <<>> THEN props
    ELSE LET prop == trim(Head(clauses))
             colon_pos == find(prop, <<":">>)
         IN  IF prop = <<>> \/ colon_pos = 0 THEN props
             ELSE InsertClauses_stopping_at_blank(Tail(clauses),
                                Insert(props, trim(Take(prop, colon_pos)),
                                       trim(Drop(prop, colon_pos + 1))))

RECURSIVE InsertClauses(_, _)
\* the loop of parse_object_properties over the clauses split on ';'
InsertClauses(clauses, props) ==
    IF clauses = <<>> THEN props
    ELSE LET prop == trim(Head(clauses))
             colon_pos == find(prop, <<":">>)
         IN  IF prop = <<>> \/ colon_pos = 0 THEN InsertClauses(Tail(clauses), props)
             ELSE InsertClauses(Tail(clauses),
                                Insert(props, trim(Take(prop, colon_pos)),
                                       trim(Drop(prop, colon_pos + 1))))

parse_object_properties(obj_type) ==
    LET t == trim(obj_type)
    IN  IF t = <<>> \/ Head(t) # "{" \/ t[Len(t)] # "}" THEN EmptyMap
        ELSE InsertClauses(split(SubSeq(t, 2, Len(t) - 1), ";"), EmptyMap)

RECURSIVE Mismatches_ignoring_types(_, _, _)
Mismatches_ignoring_types(keys, provided_props, expected_props) ==
    IF keys = <<>> THEN <<>>
    ELSE LET key == Head(keys)
             rest == Mismatches_ignoring_types(Tail(keys), provided_props, expected_props)
         IN  IF key \in DOMAIN provided_props
             THEN << <<key, provided_props[key], expected_props[key]>> >> \o rest
             ELSE rest

RECURSIVE Mismatches(_, _, _)
\* the loop of parse_ts2345_error over the expected properties, visited in the order keys
Mismatches(keys, provided_props, expected_props) ==
    IF keys = <<>> THEN <<>>
    ELSE LET key == Head(keys)
             rest == Mismatches(Tail(keys), provided_props, expected_props)
         IN  IF key \in DOMAIN provided_props /\ provided_props[key] # expected_props[key]
             THEN << <<key, provided_props[key], expected_props[key]>> >> \o rest
             ELSE rest

\* iteration_order: the order in which the HashMap of expected properties yields its keys
parse_ts2345_error(msg, iteration_order) ==
    LET provided_obj == extract_object_type(msg, <<"A","r","g","u","m","e","n","t"," ","o","f"," ","t","y","p","e"," ","'">>)
        expected_obj == extract_object_type(msg, <<"t","o"," ","p","a","r","a","m","e","t","e","r"," ","o","f"," ","t","y","p","e"," ","'">>)
    IN  IF ~IsSome(provided_obj) \/ ~IsSome(expected_obj) THEN None
        ELSE Some(Mismatches(iteration_order,
                             parse_object_properties(Unwrap(provided_obj)),
                             parse_object_properties(Unwrap(expected_obj))))

\* the orders a HashMap holding the expected properties of msg can be iterated in
IterationOrders(msg) ==
    LET expected_obj == extract_object_type(msg, <<"t","o"," ","p","a","r","a","m","e","t","e","r"," ","o","f"," ","t","y","p","e"," ","'">>)
        keys == IF IsSome(expected_obj) THEN DOMAIN parse_object_properties(Unwrap(expected_obj))
                ELSE {}
        n == Cardinality(keys)
    IN  {o \in [1..n -> keys] : \A i, j \in 1..n : o[i] = o[j] => i = j}

inline_type_mismatch_2345(e, iteration_order) ==
    LET mismatches == parse_ts2345_error(e.message, iteration_order)
    IN  IF ~IsSome(mismatches) \/ Unwrap(mismatches) = <<>> THEN None
        ELSE Some([i \in 1..Len(Unwrap(mismatches)) |->
                    Concat(<< <<"P","r","o","p","e","r","t","y"," ","BACKTICK">>, red_bold(Unwrap(mismatches)[i][1]),
                             <<"BACKTICK"," ","i","s"," ","p","r","o","v","i","d","e","d"," ","a","s"," ","BACKTICK">>, red_bold(Unwrap(mismatches)[i][2]),
                             <<"BACKTICK"," ","b","u","t"," ","e","x","p","e","c","t","s"," ","BACKTICK">>, green_bold(Unwrap(mismatches)[i][3]),
                             <<"BACKTICK",".">> >>)])

\* token.line == err.line && (err.column - 1) >= token.column
\*     && (err.column - 1) < token.column + token.raw.chars().count()
\* evaluated left to right, each operand only when the ones before it hold.  With
\* err.column = 0 the subtraction underflows, and a span that ends beyond usize::MAX
\* makes the addition overflow: a panic under overflow checks, else the wrapped value.
SubtractionUnderflows(e, token) == token.line = e.line /\ e.column = 0
AdditionOverflows(e, token) ==
    /\ token.line = e.line
    /\ ~ULess(e.column - 1, token.column)
    /\ token.column < 0 /\ token.column + Len(token.raw) >= 0

\* the condition of the loop: Returned(TRUE), Returned(FALSE) or a panic
InSpan(e, token) ==
    IF token.line # e.line THEN Returned(FALSE)
    ELSE IF SubtractionUnderflows(e, token) /\ overflow_checks THEN Panicked
    ELSE IF ULess(e.column - 1, token.column) THEN Returned(FALSE)
    ELSE IF AdditionOverflows(e, token) /\ overflow_checks THEN Panicked
    ELSE Returned(ULess(e.column - 1, token.column + Len(token.raw)))

RECURSIVE TokenAt(_, _, _)
\* the for loop over the tokens: the raw text of the first token the error's position
\* lies in, or the value name when the loop ends without a match
TokenAt(e, toks, name) ==
    IF toks = <<>> THEN Returned(name)
    ELSE LET in_span == InSpan(e, Head(toks))
         IN  IF in_span.outcome = "panicked" THEN Panicked
             ELSE IF in_span.value THEN Returned(Head(toks).raw)
             ELSE TokenAt(e, Tail(toks), name)

(***************************************************************************)
(* The handlers, one per struct implementing SuggestionHandler.            *)
(***************************************************************************)
TypeMismatchHandler(e, toks) ==
    LET line == type_mismatch_2322(e)
    IN  IF ~IsSome(line) THEN Returned(None)
        ELSE Returned(Some(Suggestion(<<Unwrap(line)>>,
                 Some(<<"E","n","s","u","r","e"," ","t","h","a","t"," ","t","h","e"," ","t","y","p","e","s"," ","a","r","e"," ","c","o","m","p","a","t","i","b","l","e"," ","o","r"," ","p","e","r","f","o","r","m"," ","a","n"," ","e","x","p","l","i","c","i","t"," ","c","o","n","v","e","r","s","i","o","n",".">>))))

InlineTypeMismatchHandler(e, toks, iteration_order) ==
    LET suggestions == inline_type_mismatch_2345(e, iteration_order)
    IN  Returned(Some(Suggestion(
            IF IsSome(suggestions) THEN Unwrap(suggestions) ELSE <<>>,
            Some(<<"C","h","e","c","k"," ","t","h","e"," ","f","u","n","c","t","i","o","n"," ","a","r","g","u","m","e","n","t","s"," ","t","o"," ","e","n","s","u","r","e"," ","t","h","e","y"," ","m","a","t","c","h"," ","t","h","e"," ","e","x","p","e","c","t","e","d"," ","p","a","r","a","m","e","t","e","r"," ","t","y","p","e","s",".">>))))

MissingParametersHandler(e, toks) ==
    LET scan == TokenAt(e, toks, quoted(e, 1, <<"f","u","n","c","t","i","o","n">>))
        fn_name == scan.value
    IN  IF scan.outcome = "panicked" THEN Panicked
        ELSE Returned(Some(Suggestion(
                <<Concat(<< <<"C","h","e","c","k"," ","i","f"," ","a","l","l"," ","r","e","q","u","i","r","e","d"," ","a","r","g","u","m","e","n","t","s"," ","a","r","e"," ","p","r","o","v","i","d","e","d"," ","w","h","e","n"," ","i","n","v","o","k","i","n","g"," ">>,
                           red_bold(fn_name)>>)>>,
                Some(Concat(<< <<"F","u","n","c","t","i","o","n"," ","BACKTICK">>, red_bold(fn_name),
                              <<"BACKTICK"," ","i","s"," ","m","i","s","s","i","n","g"," ","1"," ","o","r"," ","m","o","r","e"," ","a","r","g","u","m","e","n","t","s",".">> >>)))))

NoImplicitAnyHandler(e, toks) ==
    LET param_name == quoted(e, 1, <<"p","a","r","a","m","e","t","e","r">>)
    IN  Returned(Some(Suggestion(
            <<Concat(<<red_bold(param_name), <<" ","i","s"," ","i","m","p","l","i","c","i","t","l","y"," ","BACKTICK","a","n","y","BACKTICK",".">> >>)>>,
            Some(<<"C","o","n","s","i","d","e","r"," ","a","d","d","i","n","g"," ","t","y","p","e"," ","a","n","n","o","t","a","t","i","o","n","s"," ","t","o"," ","a","v","o","i","d"," ","i","m","p","l","i","c","i","t"," ","'","a","n","y","'"," ","t","y","p","e","s",".">>))))

PropertyMissingInTypeHandler(e, toks) ==
    LET parsed == parse_property_missing_error(e.message)
    IN  IF IsSome(parsed)
        THEN LET type_name == Unwrap(parsed)
                 scan == TokenAt(e, toks, <<>>)
                 var_name == scan.value
             IN  IF scan.outcome = "panicked" THEN Panicked
                 ELSE Returned(Some(Suggestion(
                        <<Concat(<< <<"V","e","r","i","f","y"," ","t","h","a","t"," ","BACKTICK">>, red_bold_italic(var_name),
                                   <<"BACKTICK"," ","m","a","t","c","h","e","s"," ","t","h","e"," ","a","n","n","o","t","a","t","e","d"," ","t","y","p","e"," ","BACKTICK">>, red_bold(type_name),
                                   <<"BACKTICK",".">> >>)>>,
                        Some(Concat(<< <<"E","n","s","u","r","e"," ","t","h","a","t"," ","BACKTICK">>, red_bold_italic(var_name),
                                      <<"BACKTICK"," ","h","a","s"," ","a","l","l"," ","r","e","q","u","i","r","e","d"," ","p","r","o","p","e","r","t","i","e","s"," ","d","e","f","i","n","e","d"," ","i","n"," ","t","h","e"," ","t","y","p","e"," ","BACKTICK">>,
                                      red_bold(type_name), <<"BACKTICK",".">> >>)))))
        ELSE Returned(Some(Suggestion(
                << <<"V","e","r","i","f","y"," ","t","h","a","t"," ","t","h","e"," ","o","b","j","e","c","t"," ","s","t","r","u","c","t","u","r","e"," ","i","n","c","l","u","d","e","s"," ","a","l","l"," ","r","e","q","u","i","r","e","d"," ","m","e","m","b","e","r","s"," ","o","f"," ","t","h","e"," ","s","p","e","c","i","f","i","e","d"," ","t","y","p","e",".">> >>,
                Some(<<"E","n","s","u","r","e"," ","t","h","e"," ","o","b","j","e","c","t"," ","h","a","s"," ","a","l","l"," ","r","e","q","u","i","r","e","d"," ","p","r","o","p","e","r","t","i","e","s"," ","d","e","f","i","n","e","d"," ","i","n"," ","t","h","e"," ","t","y","p","e",".">>))))

UnintentionalComparisonHandler(e, toks) ==
    Returned(Some(Suggestion(
        << <<"I","m","p","o","s","s","i","b","l","e"," ","t","o"," ","c","o","m","p","a","r","e"," ","a","s"," ","l","e","f","t"," ","s","i","d","e"," ","v","a","l","u","e"," ","i","s"," ","n","a","r","r","o","w","e","d"," ","t","o"," ","a"," ","s","i","n","g","l","e"," ","v","a","l","u","e",".">> >>,
        Some(<<"R","e","v","i","e","w"," ","t","h","e"," ","c","o","m","p","a","r","i","s","o","n"," ","l","o","g","i","c"," ","t","o"," ","e","n","s","u","r","e"," ","i","t"," ","m","a","k","e","s"," ","s","e","n","s","e",".">>))))

PropertyDoesNotExistHandler(e, toks) ==
    LET property_name == quoted(e, 1, <<"p","r","o","p","e","r","t","y">>)
        type_name == quoted(e, 3, <<"t","y","p","e">>)
    IN  Returned(Some(Suggestion(
            <<Concat(<< <<"P","r","o","p","e","r","t","y"," ","BACKTICK">>, red_bold(property_name), <<"BACKTICK"," ","i","s"," ","n","o","t"," ","f","o","u","n","d"," ","o","n"," ","t","y","p","e"," ","BACKTICK">>,
                       red_bold(type_name), <<"BACKTICK",".">> >>)>>,
            Some(<<"E","n","s","u","r","e"," ","t","h","e"," ","p","r","o","p","e","r","t","y"," ","e","x","i","s","t","s"," ","o","n"," ","t","h","e"," ","t","y","p","e"," ","o","r"," ","a","d","j","u","s","t"," ","y","o","u","r"," ","c","o","d","e"," ","t","o"," ","a","v","o","i","d"," ","a","c","c","e","s","s","i","n","g"," ","i","t",".">>))))

ObjectIsPossiblyUndefinedHandler(e, toks) ==
    LET possible_undefined_var == quoted(e, 1, <<"o","b","j","e","c","t">>)
    IN  Returned(Some(Suggestion(
            <<Concat(<<red_bold(possible_undefined_var), <<" ","m","a","y"," ","b","e"," ","BACKTICK","u","n","d","e","f","i","n","e","d","BACKTICK"," ","h","e","r","e",".">> >>)>>,
            Some(Concat(<< <<"C","o","n","s","i","d","e","r"," ","o","p","t","i","o","n","a","l"," ","c","h","a","i","n","i","n","g"," ","o","r"," ","a","n"," ","e","x","p","l","i","c","i","t"," ","c","h","e","c","k"," ","b","e","f","o","r","e"," ","a","t","t","e","m","p","t","i","n","g"," ","t","o"," ","a","c","c","e","s","s"," ","BACKTICK">>,
                          red_bold(possible_undefined_var), <<"BACKTICK">> >>)))))

DirectCastPotentiallyMistakenHandler(e, toks) ==
    LET cast_from_type == quoted(e, 1, <<"t","y","p","e">>)
        cast_to_type == quoted(e, 3, <<"t","y","p","e">>)
    IN  Returned(Some(Suggestion(
            <<Concat(<< <<"D","i","r","e","c","t","l","y"," ","c","a","s","t","i","n","g"," ","f","r","o","m"," ","BACKTICK">>, yellow_bold(cast_from_type), <<"BACKTICK"," ","t","o"," ","BACKTICK">>,
                       yellow_bold(cast_to_type),
                       <<"BACKTICK"," ","c","a","n"," ","b","e"," ","u","n","s","a","f","e"," ","o","r"," ","m","i","s","t","a","k","e","n",","," ","a","s"," ","b","o","t","h"," ","t","y","p","e","s"," ","d","o"," ","n","o","t"," ","o","v","e","r","l","a","p"," ","s","u","f","f","i","c","i","e","n","t","l","y",".">> >>)>>,
            Some(Concat(<< <<"C","o","n","s","i","d","e","r"," ","u","s","i","n","g"," ","t","y","p","e"," ","g","u","a","r","d","s"," ","o","r"," ","i","n","t","e","r","m","e","d","i","a","t","e"," ","c","o","n","v","e","r","s","i","o","n","s"," ","t","o"," ","e","n","s","u","r","e"," ","t","y","p","e"," ","s","a","f","e","t","y"," ","w","h","e","n"," ","c","a","s","t","i","n","g"," ","f","r","o","m"," ","BACKTICK">>,
                          yellow_bold(cast_from_type), <<"BACKTICK"," ","t","o"," ","BACKTICK">>, yellow_bold(cast_to_type),
                          <<"BACKTICK",","," ","o","n","l","y"," ","i","n","t","e","r","m","e","d","i","a","t","e","l","y"," ","c","a","s","t"," ","BACKTICK","a","s"," ","u","n","k","n","o","w","n","BACKTICK"," ","i","f"," ","t","h","i","s"," ","i","s"," ","d","e","s","i","r","e","d",".">> >>)))))

SpreadArgumentMustBeTupleTypeHandler(e, toks) ==
    Returned(Some(Suggestion(
        << <<"T","h","e"," ","a","r","g","u","m","e","n","t"," ","b","e","i","n","g"," ","s","p","r","e","a","d"," ","m","u","s","t"," ","b","e"," ","a"," ","t","u","p","l","e"," ","t","y","p","e"," ","o","r"," ","a"," ","BACKTICK","s","p","r","e","a","d","a","b","l","e","BACKTICK"," ","t","y","p","e",".">> >>,
        Some(<<"E","n","s","u","r","e"," ","t","h","a","t"," ","t","h","e"," ","a","r","g","u","m","e","n","t"," ","b","e","i","n","g"," ","s","p","r","e","a","d"," ","i","s"," ","a"," ","t","u","p","l","e"," ","t","y","p","e"," ","c","o","m","p","a","t","i","b","l","e"," ","w","i","t","h"," ","t","h","e"," ","f","u","n","c","t","i","o","n","'","s"," ","p","a","r","a","m","e","t","e","r"," ","t","y","p","e",".">>))))

RightSideArithmeticMustBeEnumberableHandler(e, toks) ==
    Returned(Some(Suggestion(
        << <<"T","h","e"," ","r","i","g","h","t","-","h","a","n","d"," ","s","i","d","e"," ","o","f"," ","a","n","y"," ","a","r","i","t","h","m","e","t","i","c"," ","o","p","e","r","a","t","i","o","n"," ","m","u","s","t"," ","b","e"," ","a"," ","n","u","m","b","e","r"," ","o","r"," ","e","n","u","m","e","r","a","b","l","e",".">> >>,
        Some(<<"E","n","s","u","r","e"," ","t","h","a","t"," ","t","h","e"," ","v","a","l","u","e"," ","o","n"," ","t","h","e"," ","r","i","g","h","t"," ","s","i","d","e"," ","o","f"," ","t","h","e"," ","a","r","i","t","h","m","e","t","i","c"," ","o","p","e","r","a","t","o","r"," ","i","s"," ","o","f"," ","t","y","p","e"," ","BACKTICK","n","u","m","b","e","r","BACKTICK",","," ","BACKTICK","b","i","g","i","n","t","BACKTICK"," ","o","r"," ","a","n"," ","e","n","u","m"," ","m","e","m","b","e","r",".">>))))

LeftSideArithmeticMustBeEnumberableHandler(e, toks) ==
    Returned(Some(Suggestion(
        << <<"T","h","e"," ","l","e","f","t","-","h","a","n","d"," ","s","i","d","e"," ","o","f"," ","a","n","y"," ","a","r","i","t","h","m","e","t","i","c"," ","o","p","e","r","a","t","i","o","n"," ","m","u","s","t"," ","b","e"," ","a"," ","n","u","m","b","e","r"," ","o","r"," ","e","n","u","m","e","r","a","b","l","e",".">> >>,
        Some(<<"E","n","s","u","r","e"," ","t","h","a","t"," ","t","h","e"," ","v","a","l","u","e"," ","o","n"," ","t","h","e"," ","l","e","f","t"," ","s","i","d","e"," ","o","f"," ","t","h","e"," ","a","r","i","t","h","m","e","t","i","c"," ","o","p","e","r","a","t","o","r"," ","i","s"," ","o","f"," ","t","y","p","e"," ","BACKTICK","n","u","m","b","e","r","BACKTICK",","," ","BACKTICK","b","i","g","i","n","t","BACKTICK"," ","o","r"," ","a","n"," ","e","n","u","m"," ","m","e","m","b","e","r",".">>))))

IncompatibleOverloadHandler_quoting_message(e, toks) ==
    Returned(Some(Suggestion(
        <<Concat(<< <<"T","h","e"," ","p","r","o","v","i","d","e","d"," ","a","r","g","u","m","e","n","t","s"," ","d","o"," ","n","o","t"," ","m","a","t","c","h"," ","a","n","y"," ","o","v","e","r","l","o","a","d"," ","o","f"," ">>,
                   quoted(e, 1, <<"t","h","e"," ","f","u","n","c","t","i","o","n">>), <<".">> >>)>>,
        Some(<<"C","h","e","c","k"," ","t","h","e"," ","f","u","n","c","t","i","o","n"," ","o","v","e","r","l","o","a","d","s"," ","a","n","d"," ","e","n","s","u","r","e"," ","t","h","a","t"," ","t","h","i","s"," ","s","i","g","n","a","t","u","r","e"," ","a","d","h","e","r","e","s"," ","t","o"," ","t","h","e"," ","p","a","r","e","n","t"," ","s","i","g","n","a","t","u","r","e",".">>))))

IncompatibleOverloadHandler(e, toks) ==
    Returned(Some(Suggestion(
        << <<"T","h","e"," ","p","r","o","v","i","d","e","d"," ","a","r","g","u","m","e","n","t","s"," ","d","o"," ","n","o","t"," ","m","a","t","c","h"," ","a","n","y"," ","o","v","e","r","l","o","a","d"," ","o","f"," ","t","h","e"," ","f","u","n","c","t","i","o","n",".">> >>,
        Some(<<"C","h","e","c","k"," ","t","h","e"," ","f","u","n","c","t","i","o","n"," ","o","v","e","r","l","o","a","d","s"," ","a","n","d"," ","e","n","s","u","r","e"," ","t","h","a","t"," ","t","h","i","s"," ","s","i","g","n","a","t","u","r","e"," ","a","d","h","e","r","e","s"," ","t","o"," ","t","h","e"," ","p","a","r","e","n","t"," ","s","i","g","n","a","t","u","r","e",".">>))))

InvalidShadowInScopeHandler(e, toks) ==
    LET var_name == quoted(e, 1, <<"v","a","r","i","a","b","l","e">>)
    IN  Returned(Some(Suggestion(
            <<Concat(<< <<"D","e","c","l","a","r","e","d"," ","v","a","r","i","a","b","l","e"," ","BACKTICK">>, red_bold(var_name),
                       <<"BACKTICK"," ","c","a","n"," ","n","o","t"," ","s","h","a","d","o","w"," ","a","n","o","t","h","e","r"," ","v","a","r","i","a","b","l","e"," ","i","n"," ","t","h","i","s"," ","s","c","o","p","e",".">> >>)>>,
            Some(Concat(<< <<"C","o","n","s","i","d","e","r"," ","r","e","n","a","m","i","n","g"," ","t","h","e"," ","i","n","v","a","l","i","d"," ","s","h","a","d","o","w","e","d"," ","v","a","r","i","a","b","l","e"," ","BACKTICK">>,
                          red_bold(var_name), <<"BACKTICK",".">> >>)))))

NonExistentModuleImportHandler(e, toks) ==
    LET module_name == quoted(e, 1, <<"m","o","d","u","l","e">>)
    IN  Returned(Some(Suggestion(
            <<Concat(<< <<"M","o","d","u","l","e"," ","BACKTICK">>, red_bold(module_name), <<"BACKTICK"," ","d","o","e","s"," ","n","o","t"," ","e","x","i","s","t",".">> >>)>>,
            Some(Concat(<< <<"E","n","s","u","r","e"," ","t","h","a","t"," ","t","h","e"," ","m","o","d","u","l","e"," ","BACKTICK">>, red_bold(module_name),
                          <<"BACKTICK"," ","i","s"," ","i","n","s","t","a","l","l","e","d"," ","a","n","d"," ","t","h","e"," ","i","m","p","o","r","t"," ","p","a","t","h"," ","i","s"," ","c","o","r","r","e","c","t",".">> >>)))))

ReadonlyPropertyAssignmentHandler(e, toks) ==
    LET property_name == quoted(e, 1, <<"p","r","o","p","e","r","t","y">>)
    IN  Returned(Some(Suggestion(
            <<Concat(<< <<"P","r","o","p","e","r","t","y"," ","BACKTICK">>, red_bold(property_name),
                       <<"BACKTICK"," ","i","s"," ","r","e","a","d","o","n","l","y"," ","a","n","d"," ","t","h","u","s"," ","c","a","n"," ","n","o","t"," ","b","e"," ","r","e","-","a","s","s","i","g","n","e","d",".">> >>)>>,
            Some(Concat(<< <<"C","o","n","s","i","d","e","r"," ","r","e","m","o","v","i","n","g"," ","t","h","e"," ","a","s","s","i","g","n","m","e","n","t"," ","t","o"," ","t","h","e"," ","r","e","a","d","-","o","n","l","y"," ","p","r","o","p","e","r","t","y"," ","BACKTICK">>,
                          red_bold(property_name),
                          <<"BACKTICK"," ","o","r"," ","c","h","a","n","g","i","n","g"," ","i","t","s"," ","d","e","c","l","a","r","a","t","i","o","n"," ","t","o"," ","b","e"," ","m","u","t","a","b","l","e",".">> >>)))))

IncorrectInterfaceImplementationHandler(e, toks) ==
    LET class_name == quoted(e, 1, <<"c","l","a","s","s">>)
        interface_name == quoted(e, 3, <<"i","n","t","e","r","f","a","c","e">>)
        missing_property == quoted(e, 5, <<"p","r","o","p","e","r","t","y">>)
    IN  Returned(Some(Suggestion(
            <<Concat(<< <<"C","l","a","s","s"," ","BACKTICK">>, red_bold(class_name), <<"BACKTICK"," ","d","o","e","s"," ","n","o","t"," ","i","m","p","l","e","m","e","n","t"," ","BACKTICK">>,
                       red_bold(missing_property), <<"BACKTICK"," ","f","r","o","m"," ","i","n","t","e","r","f","a","c","e"," ","BACKTICK">>,
                       red_bold(interface_name), <<"BACKTICK",".">> >>)>>,
            Some(Concat(<< <<"E","n","s","u","r","e"," ","t","h","a","t"," ","BACKTICK">>, red_bold(class_name),
                          <<"BACKTICK"," ","p","r","o","v","i","d","e","s"," ","a","l","l"," ","r","e","q","u","i","r","e","d"," ","p","r","o","p","e","r","t","i","e","s"," ","a","n","d"," ","m","e","t","h","o","d","s"," ","d","e","f","i","n","e","d"," ","i","n"," ","t","h","e"," ","i","n","t","e","r","f","a","c","e"," ","BACKTICK">>,
                          red_bold(interface_name), <<"BACKTICK",".">> >>)))))

PropertyInClassNotAssignableToBaseHandler(e, toks) ==
    LET property == quoted(e, 1, <<"p","r","o","p","e","r","t","y">>)
        impl_type == quoted(e, 3, <<"t","y","p","e">>)
        base_type == quoted(e, 5, <<"b","a","s","e"," ","t","y","p","e">>)
        property_impl_type == quoted(e, 7, <<"t","y","p","e">>)
        property_base_type == quoted(e, 9, <<"b","a","s","e"," ","t","y","p","e">>)
    IN  Returned(Some(Suggestion(
            <<Concat(<< <<"P","r","o","p","e","r","t","y"," ","BACKTICK">>, red_bold(property), <<"BACKTICK"," ","i","n"," ","c","l","a","s","s"," ","BACKTICK">>, red_bold(impl_type),
                       <<"BACKTICK"," ","i","s"," ","n","o","t"," ","a","s","s","i","g","n","a","b","l","e"," ","t","o"," ","t","h","e"," ","s","a","m","e"," ","p","r","o","p","e","r","t","y"," ","i","n"," ","b","a","s","e"," ","c","l","a","s","s"," ","BACKTICK">>,
                       red_bold(base_type), <<"BACKTICK",".">> >>),
              Concat(<< <<"P","r","o","p","e","r","t","y"," ","BACKTICK">>, red_bold(property), <<"BACKTICK"," ","i","s"," ","i","m","p","l","e","m","e","n","t","e","d"," ","a","s"," ","t","y","p","e"," ","BACKTICK">>,
                       red_bold(property_impl_type), <<"BACKTICK"," ","b","u","t"," ","d","e","f","i","n","e","d"," ","a","s"," ","BACKTICK">>,
                       green_bold(property_base_type), <<"BACKTICK",".">> >>)>>,
            Some(Concat(<< <<"E","n","s","u","r","e"," ","t","h","a","t"," ","t","h","e"," ","t","y","p","e"," ","o","f"," ","p","r","o","p","e","r","t","y"," ","BACKTICK">>, red_bold(property),
                          <<"BACKTICK"," ","i","n"," ","c","l","a","s","s"," ","BACKTICK">>, red_bold(impl_type),
                          <<"BACKTICK"," ","i","s"," ","c","o","m","p","a","t","i","b","l","e"," ","w","i","t","h"," ","t","h","e"," ","t","y","p","e"," ","d","e","f","i","n","e","d"," ","i","n"," ","b","a","s","e"," ","c","l","a","s","s"," ","BACKTICK">>,
                          red_bold(base_type), <<"BACKTICK",".">> >>)))))

CannotFindIdentifierHandler(e, toks) ==
    LET identifier == quoted(e, 1, <<"i","d","e","n","t","i","f","i","e","r">>)
    IN  Returned(Some(Suggestion(
            <<Concat(<< <<"I","d","e","n","t","i","f","i","e","r"," ","BACKTICK">>, red_bold(identifier),
                       <<"BACKTICK"," ","c","a","n","n","o","t"," ","b","e"," ","f","o","u","n","d"," ","i","n"," ","t","h","e"," ","c","u","r","r","e","n","t"," ","s","c","o","p","e",".">> >>)>>,
            Some(Concat(<< <<"E","n","s","u","r","e"," ","t","h","a","t"," ","BACKTICK">>, red_bold(identifier),
                          <<"BACKTICK"," ","i","s"," ","d","e","c","l","a","r","e","d"," ","a","n","d"," ","a","c","c","e","s","s","i","b","l","e"," ","i","n"," ","t","h","e"," ","c","u","r","r","e","n","t"," ","s","c","o","p","e"," ","o","r"," ","r","e","m","o","v","e"," ","t","h","i","s"," ","r","e","f","e","r","e","n","c","e",".">> >>)))))

MissingReturnValueHandler(e, toks) ==
    Returned(Some(Suggestion(
        << <<"A"," ","r","e","t","u","r","n"," ","v","a","l","u","e"," ","i","s"," ","m","i","s","s","i","n","g"," ","w","h","e","r","e"," ","o","n","e"," ","i","s"," ","e","x","p","e","c","t","e","d",".">> >>,
        Some(<<"A"," ","f","u","n","c","t","i","o","n"," ","t","h","a","t"," ","d","e","c","l","a","r","e","s"," ","a"," ","r","e","t","u","r","n"," ","t","y","p","e"," ","m","u","s","t"," ","r","e","t","u","r","n"," ","a"," ","v","a","l","u","e"," ","o","f"," ","t","h","a","t"," ","t","y","p","e"," ","o","n"," ","a","l","l"," ","b","r","a","n","c","h","e","s",".">>))))

UncallableExpressionHandler(e, toks) ==
    LET expr == quoted(e, 1, <<"e","x","p","r","e","s","s","i","o","n">>)
    IN  Returned(Some(Suggestion(
            <<Concat(<< <<"E","x","p","r","e","s","s","i","o","n"," ","BACKTICK">>, red_bold(expr),
                       <<"BACKTICK"," ","n","o","t"," ","c","a","n"," ","n","o","t"," ","b","e"," ","i","n","v","o","k","e","d"," ","o","r"," ","c","a","l","l","e","d",".">> >>)>>,
            Some(Concat(<< <<"E","n","s","u","r","e"," ","t","h","a","t"," ","BACKTICK">>, red_bold(expr),
                          <<"BACKTICK"," ","i","s"," ","a"," ","f","u","n","c","t","i","o","n"," ","o","r"," ","h","a","s"," ","a"," ","c","a","l","l","a","b","l","e"," ","s","i","g","n","a","t","u","r","e"," ","b","e","f","o","r","e"," ","i","n","v","o","k","i","n","g"," ","i","t",".">> >>)))))

InvalidIndexTypeHandler(e, toks) ==
    LET index_type == quoted(e, 1, <<"t","y","p","e">>)
    IN  Returned(Some(Suggestion(
            <<Concat(<< <<"BACKTICK">>, red_bold(index_type), <<"BACKTICK"," ","c","a","n","n","o","t"," ","b","e"," ","u","s","e","d"," ","a","s"," ","a","n"," ","i","n","d","e","x"," ","a","c","c","e","s","s","o","r",".">> >>)>>,
            Some(<<"E","n","s","u","r","e"," ","t","h","a","t"," ","t","h","e"," ","i","n","d","e","x"," ","t","y","p","e"," ","i","s"," ","BACKTICK","n","u","m","b","e","r","BACKTICK",","," ","BACKTICK","s","t","r","i","n","g","BACKTICK",","," ","BACKTICK","s","y","m","b","o","l","e","BACKTICK"," ","o","r"," ","a"," ","c","o","m","p","a","t","i","b","l","e"," ","i","n","d","e","x"," ","t","y","p","e",".">>))))

TypoPropertyOnTypeHandler(e, toks) ==
    LET property_name == quoted(e, 1, <<"p","r","o","p","e","r","t","y">>)
        type_name == quoted(e, 3, <<"t","y","p","e">>)
        suggested_property_name == quoted(e, 5, <<"p","r","o","p","e","r","t","y">>)
    IN  Returned(Some(Suggestion(
            <<Concat(<< <<"P","r","o","p","e","r","t","y"," ","BACKTICK">>, red_bold(property_name), <<"BACKTICK"," ","d","o","e","s"," ","n","o","t"," ","e","x","i","s","t"," ","o","n"," ","t","y","p","e"," ","BACKTICK">>,
                       yellow_bold(type_name), <<"BACKTICK","."," ","T","r","y"," ","BACKTICK">>, green_bold(suggested_property_name),
                       <<"BACKTICK"," ","i","n","s","t","e","a","d">> >>)>>,
            Some(Concat(<< <<"C","h","e","c","k"," ","f","o","r"," ","t","y","p","o","s"," ","i","n"," ","t","h","e"," ","p","r","o","p","e","r","t","y"," ","n","a","m","e"," ","BACKTICK">>, red_bold(property_name),
                          <<"BACKTICK"," ","o","r"," ","e","n","s","u","r","e"," ","t","h","a","t"," ","i","t"," ","i","s"," ","d","e","f","i","n","e","d"," ","o","n"," ","t","y","p","e"," ","BACKTICK">>, red_bold(type_name),
                          <<"BACKTICK",".">> >>)))))

\* the arms of the match in build that box a handler, and handler.handle(err, tokens)
handle(e, toks, iteration_order) ==
    CASE e.code.tag = "TypeMismatch" -> TypeMismatchHandler(e, toks)
      [] e.code.tag = "InlineTypeMismatch" -> InlineTypeMismatchHandler(e, toks, iteration_order)
      [] e.code.tag = "MissingParameters" -> MissingParametersHandler(e, toks)
      [] e.code.tag = "NoImplicitAny" -> NoImplicitAnyHandler(e, toks)
      [] e.code.tag = "PropertyMissingInType" -> PropertyMissingInTypeHandler(e, toks)
      [] e.code.tag = "UnintentionalComparison" -> UnintentionalComparisonHandler(e, toks)
      [] e.code.tag = "PropertyDoesNotExist" -> PropertyDoesNotExistHandler(e, toks)
      [] e.code.tag = "ObjectIsPossiblyUndefined" -> ObjectIsPossiblyUndefinedHandler(e, toks)
      [] e.code.tag = "DirectCastPotentiallyMistaken" -> DirectCastPotentiallyMistakenHandler(e, toks)
      [] e.code.tag = "SpreadArgumentMustBeTupleType" -> SpreadArgumentMustBeTupleTypeHandler(e, toks)
      [] e.code.tag = "RightSideArithmeticMustBeEnumberable" ->
            RightSideArithmeticMustBeEnumberableHandler(e, toks)
      [] e.code.tag = "LeftSideArithmeticMustBeEnumberable" ->
            LeftSideArithmeticMustBeEnumberableHandler(e, toks)
      [] e.code.tag = "IncompatibleOverload" -> IncompatibleOverloadHandler(e, toks)
      [] e.code.tag = "InvalidShadowInScope" -> InvalidShadowInScopeHandler(e, toks)
      [] e.code.tag = "NonExistentModuleImport" -> NonExistentModuleImportHandler(e, toks)
      [] e.code.tag = "ReadonlyPropertyAssignment" -> ReadonlyPropertyAssignmentHandler(e, toks)
      [] e.code.tag = "IncorrectInterfaceImplementation" ->
            IncorrectInterfaceImplementationHandler(e, toks)
      [] e.code.tag = "PropertyInClassNotAssignableToBase" ->
            PropertyInClassNotAssignableToBaseHandler(e, toks)
      [] e.code.tag = "CannotFindIdentifier" -> CannotFindIdentifierHandler(e, toks)
      [] e.code.tag = "MissingReturnValue" -> MissingReturnValueHandler(e, toks)
      [] e.code.tag = "UncallableExpression" -> UncallableExpressionHandler(e, toks)
      [] e.code.tag = "InvalidIndexType" -> InvalidIndexTypeHandler(e, toks)
      [] e.code.tag = "TypoPropertyOnType" -> TypoPropertyOnTypeHandler(e, toks)
      [] OTHER -> NoMatchArm

\* the arms of the match in build that return None at once
NoSuggestionTags == {"ObjectIsPossiblyNull", "ObjectIsUnknown", "Unsupported"}

build_handling_possibly_null(e, toks, iteration_order) ==
    IF e.code.tag \in {"ObjectIsUnknown", "Unsupported"} THEN Returned(None)
    ELSE IF e.code.tag = "ObjectIsPossiblyNull" THEN ObjectIsPossiblyUndefinedHandler(e, toks)
    ELSE handle(e, toks, iteration_order)

\* Suggestion::build
build(e, toks, iteration_order) ==
    IF e.code.tag \in NoSuggestionTags THEN Returned(None)
    ELSE handle(e, toks, iteration_order)

(***************************************************************************)
(* Input lines: <file>(<line>,<column>): error <code>: <message>, put      *)
(* together from pieces so that every split step can be made to fail.      *)
(***************************************************************************)
RECURSIVE ToDecimal(_)
\* the decimal text of a usize given in its two's-complement reading
ToDecimal(n) ==
    IF n < 0
    THEN SubtractDigits(USIZE_MAX_TEXT, PadZeros(ToDecimal(0 - (n + 1)), Len(USIZE_MAX_TEXT)), 0)
    ELSE IF n < 10 THEN <<Digits[n + 1]>>
    ELSE Append(ToDecimal(n \div 10), Digits[(n % 10) + 1])

Compose(p) ==
    p.file \o p.sep1 \o p.lineText \o p.sep2 \o p.colText \o p.sep3 \o p.code
           \o p.sep4 \o p.message

Files == {<<"s","r","c","/","a","p","p",".","t","s">>, <<>>, <<"l","i","b","(","o","l","d",")","/","a",".","t","s">>}

CoordTexts ==
    {ToDecimal(n) : n \in 0..MaxCoord}
        \cup {<<>>, <<"x">>, <<"+","1">>, <<"-","1">>, <<"0","1">>, <<"1","8","4","4","6","7","4","4","0","7","3","7","0","9","5","5","1","6","1","6">>,
              USIZE_MAX_TEXT, HALF_RANGE_TEXT}

LineCodes == {<<"T","S","2","3","2","2">>, <<"T","S","7","0","4","4">>, <<"T","S","2","3","6","3">>, <<"T","S","9","9","9","9">>, <<>>}

LineMessages ==
    {<<"T","y","p","e"," ","'","s","t","r","i","n","g","'"," ","i","s"," ","n","o","t"," ","a","s","s","i","g","n","a","b","l","e"," ","t","o"," ","t","y","p","e"," ","'","n","u","m","b","e","r","'",".">>,
     <<"f","(","1",",","2",")",":"," ","e","r","r","o","r"," ","T","S","1",":"," ","m">>,
     <<"m">>,
     <<>>}

\* lines that follow the grammar, whatever their pieces hold
GrammarParts ==
    [file : Files, sep1 : {<<"(">>}, lineText : CoordTexts, sep2 : {<<",">>},
     colText : CoordTexts, sep3 : {<<")",":"," ","e","r","r","o","r"," ">>}, code : LineCodes,
     sep4 : {<<":"," ">>}, message : LineMessages]

\* lines with any of the four separators missing or damaged
DamagedParts ==
    [file : {<<"s","r","c","/","a","p","p",".","t","s">>}, sep1 : {<<"(">>, <<>>}, lineText : {<<"1">>},
     sep2 : {<<",">>, <<";">>}, colText : {<<"2">>}, sep3 : {<<")",":"," ","e","r","r","o","r"," ">>, <<")",":"," ","w","a","r","n","i","n","g"," ">>},
     code : {<<"T","S","2","3","2","2">>}, sep4 : {<<":"," ">>, <<":">>}, message : LineMessages]

LineParts == GrammarParts \cup DamagedParts

\* the code strings handed to from_code: every code of the table, and for each one
\* its neighbours by whitespace, by case, by one character less and one more
Lower(s) == [i \in 1..Len(s) |-> IF s[i] = "T" THEN "t" ELSE IF s[i] = "S" THEN "s" ELSE s[i]]
TableCodes == {CodeTable[i][1] : i \in 1..Len(CodeTable)}
CodeStrings ==
    TableCodes
        \cup {<<" ">> \o c : c \in TableCodes}
        \cup {c \o <<" ">> : c \in TableCodes}
        \cup {Lower(c) : c \in TableCodes}
        \cup {SubSeq(c, 1, Len(c) - 1) : c \in TableCodes}
        \cup {c \o <<"0">> : c \in TableCodes}
        \cup {<<>>, <<"T","S">>, <<"e","r","r","o","r">>}

(***************************************************************************)
(* Inputs of the synthesis: tokens, and TsError values a caller builds.    *)
(***************************************************************************)
Token(raw, line, column) == [raw |-> raw, line |-> line, column |-> column]

\* two tokens of line 1 with overlapping spans [1,4) and [2,4), one of the last line,
\* and one of line 1 whose span ends beyond usize::MAX
TokenPool ==
    {Token(<<"f","o","o">>, 1, 1), Token(<<"b","a">>, 1, 2), Token(<<"x">>, MaxLine, 0),
     Token(<<"a","b">>, 1, USIZE_MAX - 1)}

TokenSlices ==
    UNION {[1..n -> TokenPool] : n \in 0..MaxTokens}

\* the variants build has a handler for
HandledTags ==
    {"TypeMismatch", "InlineTypeMismatch", "MissingParameters", "NoImplicitAny",
     "PropertyMissingInType", "UnintentionalComparison", "PropertyDoesNotExist",
     "ObjectIsPossiblyUndefined", "DirectCastPotentiallyMistaken",
     "SpreadArgumentMustBeTupleType", "RightSideArithmeticMustBeEnumberable",
     "LeftSideArithmeticMustBeEnumberable", "IncompatibleOverload", "InvalidShadowInScope",
     "NonExistentModuleImport", "ReadonlyPropertyAssignment",
     "IncorrectInterfaceImplementation", "PropertyInClassNotAssignableToBase",
     "CannotFindIdentifier", "MissingReturnValue", "UncallableExpression",
     "InvalidIndexType", "TypoPropertyOnType"}

\* the variants build returns None for
SilentCategories ==
    {Known("ObjectIsPossiblyNull"), Known("ObjectIsUnknown"),
     Unsupported(<<"T","S","9","9","9","9">>), Unsupported(<<>>), Unsupported(<<"T","S","2","3","2","2"," ">>)}

Categories == {Known(t) : t \in HandledTags} \cup SilentCategories

Messages ==
    {<<>>,
     <<"E","x","p","e","c","t","e","d"," ","2"," ","a","r","g","u","m","e","n","t","s",","," ","b","u","t"," ","g","o","t"," ","1",".">>,
     <<"T","y","p","e"," ","'","s","t","r","i","n","g","'"," ","i","s"," ","n","o","t"," ","a","s","s","i","g","n","a","b","l","e"," ","t","o"," ","t","y","p","e"," ","'","n","u","m","b","e","r","'",".">>,
     <<"T","y","p","e"," ","'","s","t","r","i","n","g">>,
     <<"T","y","p","e"," ","'","s","t","r","i","n","g","'"," ","i","s"," ","w","r","o","n","g",".">>,
     <<"P","r","o","p","e","r","t","y"," ","'","n","a","m","e","'"," ","i","s"," ","m","i","s","s","i","n","g"," ","i","n"," ","t","y","p","e"," ","'","{"," ","i","d",":"," ","n","u","m","b","e","r",";"," ","}","'"," ","b","u","t"," ","r","e","q","u","i","r","e","d"," ","i","n"," ","t","y","p","e"," ","'","U","s","e","r","'",".">>,
     <<"'","a","'","b","'","c","'","d","'","e","'","f","'","g","'","h","'","i","'","j","'">>,
     <<"A","r","g","u","m","e","n","t"," ","o","f"," ","t","y","p","e"," ","'","{"," ","a",":"," ","s","t","r","i","n","g",";"," ","}","'"," ","i","s"," ","n","o","t"," ","a","s","s","i","g","n","a","b","l","e"," ","t","o"," ","p","a","r","a","m","e","t","e","r"," ","o","f"," ","t","y","p","e"," ","'","{"," ","a",":"," ","n","u","m","b","e","r",";"," ","}","'",".">>}

\* type texts without a quote, and the TS2322 messages made of two of them
TypeTexts == {<<"s","t","r","i","n","g">>, <<"n","u","m","b","e","r">>, <<>>, <<"{"," ","a",":"," ","n","u","m","b","e","r"," ","}">>, <<"t","y","p","e">>}
Assignability(x, y) == <<"T","y","p","e"," ","'">> \o x \o <<"'"," ","i","s"," ","n","o","t"," ","a","s","s","i","g","n","a","b","l","e"," ","t","o"," ","t","y","p","e"," ","'">> \o y \o <<"'",".">>
AssignabilityMessages == {Assignability(x, y) : x \in TypeTexts, y \in TypeTexts}

PositionalTags == {"MissingParameters", "PropertyMissingInType"}

PositionalMessages ==
    {<<"E","x","p","e","c","t","e","d"," ","2"," ","a","r","g","u","m","e","n","t","s",","," ","b","u","t"," ","g","o","t"," ","1",".">>,
     <<"'","r","u","n","'"," ","w","a","s"," ","c","a","l","l","e","d"," ","w","i","t","h"," ","t","o","o"," ","f","e","w"," ","a","r","g","u","m","e","n","t","s",".">>,
     <<"P","r","o","p","e","r","t","y"," ","'","n","a","m","e","'"," ","i","s"," ","m","i","s","s","i","n","g"," ","i","n"," ","t","y","p","e"," ","'","D","r","a","f","t","'"," ","b","u","t"," ","r","e","q","u","i","r","e","d"," ","i","n"," ","t","y","p","e"," ","'","U","s","e","r","'",".">>}

ObjectLiterals ==
    {<<"{"," ","a",":"," ","s","t","r","i","n","g",";"," ","b",":"," ","n","u","m","b","e","r",";"," ","}">>,
     <<"{"," ","a",":"," ","s","t","r","i","n","g",";"," ","b",":"," ","s","t","r","i","n","g",";"," ","}">>,
     <<"{"," ","b",":"," ","n","u","m","b","e","r",";"," ","a",":"," ","s","t","r","i","n","g"," ","}">>,
     <<"{"," ","a",":"," ","n","u","m","b","e","r",";"," ","b",":"," ","b","o","o","l","e","a","n",";"," ","c",":"," ","s","t","r","i","n","g",";"," ","}">>,
     <<"{","}">>,
     <<"s","t","r","i","n","g">>,
     <<"{"," ","a",":"," ","n","u","m","b","e","r",";"," ","a",":"," ","s","t","r","i","n","g",";"," ","c"," ","}">>,
     <<"\t"," ","{","a",":","n","u","m","b","e","r",";",";","b"," ",":","\t","s","t","r","i","n","g","}">> \o <<"\n">>}

InlineMessages ==
    {Concat(<< <<"A","r","g","u","m","e","n","t"," ","o","f"," ","t","y","p","e"," ","'">>, provided,
              <<"'"," ","i","s"," ","n","o","t"," ","a","s","s","i","g","n","a","b","l","e"," ","t","o"," ","p","a","r","a","m","e","t","e","r"," ","o","f"," ","t","y","p","e"," ","'">>, expected, <<"'",".">> >>) :
        provided \in ObjectLiterals, expected \in ObjectLiterals}
      \cup {<<"A","r","g","u","m","e","n","t"," ","o","f"," ","t","y","p","e"," ","'","{"," ","a",":"," ","s","t","r","i","n","g",";"," ","}">>,
            <<"A","r","g","u","m","e","n","t"," ","o","f"," ","t","y","p","e"," ","'","{"," ","a",":"," ","s","t","r","i","n","g",";"," ","}","'"," ","i","s"," ","n","o","t"," ","a","s","s","i","g","n","a","b","l","e"," ","t","o"," ","p","a","r","a","m","e","t","e","r"," ","o","f"," ","t","y","p","e"," ","'","{"," ","a",":"," ","n","u","m","b","e","r",";"," ","}">>}

\* every category with every message at the two corner positions; the position-based
\* categories at every position; the inline category with every pair of literals
ErrorInputs ==
    {TsError(<<"s","r","c","/","a","p","p",".","t","s">>, pos[1], pos[2], c, m) :
        pos \in {<<1, 0>>, <<MaxLine, MaxCoord>>}, c \in Categories, m \in Messages}
      \cup {TsError(<<"s","r","c","/","a","p","p",".","t","s">>, l, col, Known(t), m) :
                l \in 1..MaxLine, col \in 0..MaxCoord \cup {USIZE_MAX},
                t \in PositionalTags,
                m \in PositionalMessages}
      \cup {TsError(<<"s","r","c","/","a","p","p",".","t","s">>, 1, 1, Known("InlineTypeMismatch"), m) :
                m \in InlineMessages}
      \cup {TsError(<<"s","r","c","/","a","p","p",".","t","s">>, 1, 1, Known("TypeMismatch"), m) :
                m \in AssignabilityMessages}

\* the diagnostic lines read ahead of a synthesis: every code of the table and an
\* unknown one, at every column
PipelineParts ==
    [file : {<<"s","r","c","/","a","p","p",".","t","s">>}, sep1 : {<<"(">>}, lineText : {<<"1">>}, sep2 : {<<",">>},
     colText : {ToDecimal(n) : n \in 0..MaxCoord \cup {USIZE_MAX}}, sep3 : {<<")",":"," ","e","r","r","o","r"," ">>},
     code : TableCodes \cup {<<"T","S","9","9","9","9">>}, sep4 : {<<":"," ">>},
     message : {<<"E","x","p","e","c","t","e","d"," ","2"," ","a","r","g","u","m","e","n","t","s",","," ","b","u","t"," ","g","o","t"," ","1",".">>,
                <<"T","y","p","e"," ","'","s","t","r","i","n","g","'"," ","i","s"," ","n","o","t"," ","a","s","s","i","g","n","a","b","l","e"," ","t","o"," ","t","y","p","e"," ","'","n","u","m","b","e","r","'",".">>,
                <<"P","r","o","p","e","r","t","y"," ","'","n","a","m","e","'"," ","i","s"," ","m","i","s","s","i","n","g"," ","i","n"," ","t","y","p","e"," ","'","D","r","a","f","t","'"," ","b","u","t"," ","r","e","q","u","i","r","e","d"," ","i","n"," ","t","y","p","e"," ","'","U","s","e","r","'",".">>}]

(***************************************************************************)
(* State machine.                                                          *)
(***************************************************************************)
NotRun == [outcome |-> "not_run", value |-> None]

Init ==
    /\ colorize \in BOOLEAN
    /\ overflow_checks \in BOOLEAN
    /\ pc = "idle"
    /\ parts = <<>>
    /\ line_in = <<>>
    /\ err = None
    /\ tokens = <<>>
    /\ order = <<>>
    /\ result = NotRun
    /\ code_in = <<>>
    /\ kind = None
    /\ shown = <<>>

\* one diagnostic line, drawn from inputs, is read and handed to parse
ParseLine(inputs) ==
    /\ pc = "idle"
    /\ \E p \in inputs :
        /\ parts' = p
        /\ line_in' = Compose(p)
        /\ err' = parse(Compose(p))
    /\ pc' = "parsed"
    /\ UNCHANGED <<colorize, overflow_checks, tokens, order, result, code_in, kind, shown>>

\* a code string is classified and the category written back as text
Classify ==
    /\ pc = "idle"
    /\ \E c \in CodeStrings :
        /\ code_in' = c
        /\ kind' = Some(from_code(c))
        /\ shown' = fmt(from_code(c))
    /\ pc' = "classified"
    /\ UNCHANGED <<colorize, overflow_checks, parts, line_in, err, tokens, order, result>>

\* a caller builds a TsError itself (all its fields are public)
MakeError ==
    /\ pc = "idle"
    /\ \E e \in ErrorInputs : err' = Some(e)
    /\ pc' = "made"
    /\ UNCHANGED <<colorize, overflow_checks, parts, line_in, tokens, order, result,
                   code_in, kind, shown>>

\* Suggestion::build on the error at hand and a token slice; the iteration order is the
\* one the HashMap of parse_ts2345_error happens to have
Synthesize ==
    /\ pc \in {"parsed", "made"}
    /\ IsSome(err)
    /\ \E toks \in TokenSlices :
          \E iteration_order \in IterationOrders(Unwrap(err).message) :
             /\ tokens' = toks
             /\ order' = iteration_order
             /\ result' = build(Unwrap(err), toks, iteration_order)
    /\ pc' = "built"
    /\ UNCHANGED <<colorize, overflow_checks, parts, line_in, err, code_in, kind, shown>>

\* the caller is done with this diagnostic and turns to the next one; nothing is kept
Finish ==
    /\ pc \in {"parsed", "made", "built", "classified"}
    /\ pc' = "idle"
    /\ parts' = <<>>
    /\ line_in' = <<>>
    /\ err' = None
    /\ tokens' = <<>>
    /\ order' = <<>>
    /\ result' = NotRun
    /\ code_in' = <<>>
    /\ kind' = None
    /\ shown' = <<>>
    /\ UNCHANGED <<colorize, overflow_checks>>

Next ==
    \/ ParseLine(PipelineParts)
    \/ MakeError
    \/ Synthesize
    \/ Finish

\* The pipeline: a line is parsed, or an error built by the caller, and a suggestion
\* synthesized for it.
Spec == Init /\ [][Next]_vars

NextParser ==
    \/ ParseLine(LineParts)
    \/ Classify
    \/ Finish

\* The parser and the classifier alone; neither reads the two build settings.
InitParser == Init /\ ~colorize /\ ~overflow_checks
SpecParser == InitParser /\ [][NextParser]_vars

(***************************************************************************)
(* Properties of the parser and the classifier (under SpecParser).         *)
(***************************************************************************)
Contains(s, pat) == \E i \in 1..Len(s) : MatchesAt(s, pat, i)
\* index of the first occurrence of pat in s, 0 when there is none
FirstAt(s, pat) ==
    IF Contains(s, pat)
    THEN CHOOSE i \in 1..Len(s) :
            MatchesAt(s, pat, i) /\ \A j \in 1..(i - 1) : ~MatchesAt(s, pat, j)
    ELSE 0
AllDigits(s) == \A i \in 1..Len(s) : s[i] \in {"0", "1", "2", "3", "4", "5", "6", "7", "8", "9"}
RECURSIVE DecimalValue(_)
DecimalValue(s) ==
    IF s = <<>> THEN 0
    ELSE 10 * DecimalValue(SubSeq(s, 1, Len(s) - 1))
            + (CHOOSE v \in 0..9 : ToDecimal(v) = <<s[Len(s)]>>)
\* a coordinate text of the grammar: digits, not empty, of a value up to 2^64 - 1
IsCoordinate(s) ==
    /\ s # <<>> /\ AllDigits(s)
    /\ \/ Len(StripZeros(s)) < Len(USIZE_MAX_TEXT)
       \/ Len(StripZeros(s)) = Len(USIZE_MAX_TEXT) /\ ~DecimalGreater(StripZeros(s), USIZE_MAX_TEXT)
\* the digit string without its leading zeros: the decimal text of its value
Canonical(s) == IF StripZeros(s) = <<>> THEN <<"0">> ELSE StripZeros(s)

\* the line is F ( L , C ): error K: M with F free of "(", L and C coordinates,
\* K free of ": "
MeetsGrammar(p) ==
    /\ p.sep1 = <<"(">> /\ p.sep2 = <<",">> /\ p.sep3 = <<")",":"," ","e","r","r","o","r"," ">> /\ p.sep4 = <<":"," ">>
    /\ ~Contains(p.file, <<"(">>)
    /\ IsCoordinate(p.lineText) /\ IsCoordinate(p.colText)
    /\ ~Contains(p.code, <<":"," ">>)

\* C1: a line F(L,C): error K: M, with F free of "(", L and C digit strings and K free
\* of ": ", parses to file F, line and column the values of L and C unshifted, code
\* classify(K) and message M exactly, whatever separators M itself contains.
C1_ParseReadsGrammar ==
    (pc = "parsed" /\ MeetsGrammar(parts)) =>
        /\ IsSome(err)
        /\ Unwrap(err).file = parts.file
        /\ ToDecimal(Unwrap(err).line) = Canonical(parts.lineText)
        /\ ToDecimal(Unwrap(err).column) = Canonical(parts.colText)
        /\ NearZero(StripZeros(parts.lineText))
              => Unwrap(err).line = DecimalValue(parts.lineText)
        /\ NearZero(StripZeros(parts.colText))
              => Unwrap(err).column = DecimalValue(parts.colText)
        /\ Unwrap(err).code = from_code(parts.code)
        /\ Unwrap(err).message = parts.message

\* a grammatical line whose message repeats all four separators has been parsed
C1_Witness ==
    /\ pc = "parsed" /\ MeetsGrammar(parts)
    /\ Contains(parts.message, <<"(">>) /\ Contains(parts.message, <<",">>)
    /\ Contains(parts.message, <<")",":"," ","e","r","r","o","r"," ">>) /\ Contains(parts.message, <<":"," ">>)
    /\ DecimalValue(parts.colText) = 0
    /\ IsSome(err) /\ Unwrap(err).message = parts.message

\* a separator is absent at its split step, or a coordinate text is empty or holds a
\* character that is not a digit
Malformed(l) ==
    LET a == FirstAt(l, <<"(">>)
        afterParen == Drop(l, a + 1)
        b == FirstAt(afterParen, <<")",":"," ","e","r","r","o","r"," ">>)
        pair == Take(afterParen, b)
        rest == Drop(afterParen, b + Len(<<")",":"," ","e","r","r","o","r"," ">>))
        c == FirstAt(pair, <<",">>)
        lineText == Take(pair, c)
        colText == Drop(pair, c + 1)
    IN  \/ a = 0
        \/ b = 0
        \/ c = 0
        \/ FirstAt(rest, <<":"," ">>) = 0
        \/ lineText = <<>> \/ ~AllDigits(lineText)
        \/ colText = <<>> \/ ~AllDigits(colText)

\* C2: parse returns no result for every line in which one of the four separators is
\* absent at its split step, or whose line or column text is empty or contains a
\* non-digit character.
C2_RejectsMalformed ==
    (pc = "parsed" /\ Malformed(line_in)) => err = None

\* The table of section 6 of the specification, in its order: <<code, category>>.
DocumentedTable == <<
    << <<"T","S","2","3","2","2">>, "TypeMismatch">>,
    << <<"T","S","2","3","4","5">>, "InlineTypeMismatch">>,
    << <<"T","S","2","5","5","4">>, "MissingParameters">>,
    << <<"T","S","7","0","0","6">>, "NoImplicitAny">>, << <<"T","S","7","0","4","4">>, "NoImplicitAny">>,
    << <<"T","S","2","7","4","1">>, "PropertyMissingInType">>,
    << <<"T","S","2","3","6","7">>, "UnintentionalComparison">>,
    << <<"T","S","1","8","0","4","6">>, "ObjectIsUnknown">>,
    << <<"T","S","2","3","3","9">>, "PropertyDoesNotExist">>,
    << <<"T","S","2","5","3","2">>, "ObjectIsPossiblyUndefined">>, << <<"T","S","1","8","0","4","8">>, "ObjectIsPossiblyUndefined">>,
    << <<"T","S","2","5","3","1">>, "ObjectIsPossiblyNull">>, << <<"T","S","1","8","0","4","7">>, "ObjectIsPossiblyNull">>,
    << <<"T","S","2","3","5","2">>, "DirectCastPotentiallyMistaken">>,
    << <<"T","S","2","5","5","6">>, "SpreadArgumentMustBeTupleType">>,
    << <<"T","S","2","3","6","3">>, "RightSideArithmeticMustBeNumber">>,
    << <<"T","S","2","3","9","4">>, "IncompatibleOverload">>,
    << <<"T","S","2","4","5","1">>, "InvalidShadowInScope">>,
    << <<"T","S","2","3","0","7">>, "NonExistentModuleImport">>,
    << <<"T","S","2","5","4","0">>, "ReadonlyPropertyAssignment">>,
    << <<"T","S","2","4","2","0">>, "IncorrectInterfaceImplementation">> >>
DocumentedCodes == {DocumentedTable[i][1] : i \in 1..Len(DocumentedTable)}
DocumentedCategory(c) ==
    IF c \in DocumentedCodes
    THEN Known(DocumentedTable[CHOOSE i \in 1..Len(DocumentedTable) : DocumentedTable[i][1] = c][2])
    ELSE Unsupported(c)
\* the code strings that classify to something other than Unsupported
KnownCodes == {c \in CodeStrings : from_code(c).tag # "Unsupported"}

\* C3 as stated: classify follows the documented table on each of the 22 known code
\* strings and maps every other string u to Unsupported(u), u unchanged.
C3_TableOf22Codes ==
    pc = "classified" =>
        /\ kind = Some(DocumentedCategory(code_in))
        /\ Cardinality(KnownCodes) = 22

\* C3 (amended): classify is total and follows the documented table on each of the 21
\* known code strings (the alias pairs included); every other string u, the empty
\* string and strings differing by case or whitespace included, maps to
\* Unsupported(u) carrying u unchanged.
C3_ClassifyFollowsTable ==
    pc = "classified" =>
        /\ kind = Some(DocumentedCategory(code_in))
        /\ Cardinality(KnownCodes) = 21
        /\ KnownCodes = DocumentedCodes

\* a known code followed by a blank has been classified, as Unsupported with the blank kept
C3_Witness ==
    /\ pc = "classified"
    /\ code_in = <<"T","S","2","3","2","2"," ">>
    /\ kind = Some(Unsupported(<<"T","S","2","3","2","2"," ">>))

\* the first code the documented table lists for a category
CanonicalCode(tag) ==
    DocumentedTable[CHOOSE i \in 1..Len(DocumentedTable) :
                        /\ DocumentedTable[i][2] = tag
                        /\ \A j \in 1..(i - 1) : DocumentedTable[j][2] # tag][1]

\* C4: the text of a category is its canonical (first listed) code, and the stored
\* string for Unsupported; so writing back classify(c) gives c, except that TS7044
\* gives TS7006, TS18048 gives TS2532 and TS18047 gives TS2531; and classifying the
\* text of a category classify returned gives that category again.
C4_DisplayRoundTrip ==
    pc = "classified" =>
        LET k == Unwrap(kind)
        IN  /\ shown = IF k.tag = "Unsupported" THEN k.code ELSE CanonicalCode(k.tag)
            /\ shown = CASE code_in = <<"T","S","7","0","4","4">> -> <<"T","S","7","0","0","6">>
                          [] code_in = <<"T","S","1","8","0","4","8">> -> <<"T","S","2","5","3","2">>
                          [] code_in = <<"T","S","1","8","0","4","7">> -> <<"T","S","2","5","3","1">>
                          [] OTHER -> code_in
            /\ from_code(shown) = k

\* a secondary alias has been classified and written back as its canonical code
C4_Witness ==
    /\ pc = "classified"
    /\ code_in = <<"T","S","1","8","0","4","7">>
    /\ shown = <<"T","S","2","5","3","1">>

(***************************************************************************)
(* Properties of the synthesis (under Spec).                               *)
(***************************************************************************)
Built == pc = "built"
TheError == Unwrap(err)
TheSuggestion == Unwrap(result.value)
StartsWith(s, prefix) == MatchesAt(s, prefix, 1)

\* C5: an error whose category is object-is-unknown, object-possibly-null (from
\* TS2531 or from TS18047) or Unsupported gets no suggestion, whatever its message,
\* its position and the tokens are.
C5_NonCoveredGetNothing ==
    (Built /\ TheError.code.tag \in {"ObjectIsUnknown", "ObjectIsPossiblyNull", "Unsupported"})
        => result = Returned(None)

\* a line with the alias code TS18047 has been parsed and synthesized against tokens
C5_Witness ==
    /\ Built
    /\ Contains(line_in, <<"e","r","r","o","r"," ","T","S","1","8","0","4","7",":"," ">>)
    /\ TheError.code = Known("ObjectIsPossiblyNull")
    /\ tokens # <<>>
    /\ result = Returned(None)

\* C6: an error of a covered category (any but object-is-unknown, object-possibly-null
\* and Unsupported) gets a suggestion and not nothing, whatever its message and the
\* tokens are: when synthesize returns for it, it returns a suggestion.
C6_CoveredGetSuggestion ==
    (Built /\ TheError.code.tag \notin {"ObjectIsUnknown", "ObjectIsPossiblyNull", "Unsupported"}
           /\ result.outcome = "returned")
        => IsSome(result.value)

\* C7: no call aborts: for every record parse returns (one with column 0 included)
\* and every token slice, synthesize completes with a result or an absent result; the
\* column - 1 of the position-based strategies, and their arithmetic on usize at large,
\* never makes it panic.
C7_NeverAborts ==
    (Built /\ line_in # <<>>) => result.outcome # "panicked"

\* the indices of the tokens on the error's line whose span holds column - 1
\* (on the integers, not on usize: column 0 has no column - 1 in any span, and a span
\* may end beyond usize::MAX; two readings at the same end of the range are as far
\* apart as the values they stand for)
MatchingTokens ==
    {i \in 1..Len(tokens) :
        /\ tokens[i].line = TheError.line
        /\ TheError.column # 0
        /\ (tokens[i].column < 0) = (TheError.column - 1 < 0)
        /\ tokens[i].column <= TheError.column - 1
        /\ (TheError.column - 1) - tokens[i].column < Len(tokens[i].raw)}
FirstMatching == tokens[CHOOSE i \in MatchingTokens : \A j \in MatchingTokens : i <= j]

\* the message holds a segment type '...' closed by a quote after the last "type '"
HasTypeSegment(msg) ==
    \E i \in 1..Len(msg) :
        /\ MatchesAt(msg, <<"t","y","p","e"," ","'">>, i)
        /\ \A j \in (i + 1)..Len(msg) : ~MatchesAt(msg, <<"t","y","p","e"," ","'">>, j)
        /\ \E j \in (i + Len(<<"t","y","p","e"," ","'">>))..Len(msg) : msg[j] = "'"

\* the suggestion of the missing-parameters strategy names the function name
NamesFunction(name) ==
    /\ IsSome(result.value)
    /\ TheSuggestion.suggestions =
         << <<"C","h","e","c","k"," ","i","f"," ","a","l","l"," ","r","e","q","u","i","r","e","d"," ","a","r","g","u","m","e","n","t","s"," ","a","r","e"," ","p","r","o","v","i","d","e","d"," ","w","h","e","n"," ","i","n","v","o","k","i","n","g"," ">> \o red_bold(name)>>
    /\ TheSuggestion.help =
         Some(<<"F","u","n","c","t","i","o","n"," ","BACKTICK">> \o red_bold(name) \o <<"BACKTICK"," ","i","s"," ","m","i","s","s","i","n","g"," ","1"," ","o","r"," ","m","o","r","e"," ","a","r","g","u","m","e","n","t","s",".">>)

\* the suggestion of the property-missing-in-type strategy names the variable name
NamesVariable(name) ==
    /\ IsSome(result.value)
    /\ Len(TheSuggestion.suggestions) = 1
    /\ StartsWith(TheSuggestion.suggestions[1],
                  <<"V","e","r","i","f","y"," ","t","h","a","t"," ","BACKTICK">> \o red_bold_italic(name) \o <<"BACKTICK"," ","m","a","t","c","h","e","s"," ","t","h","e"," ","a","n","n","o","t","a","t","e","d"," ","t","y","p","e"," ","BACKTICK">>)
    /\ StartsWith(Unwrap(TheSuggestion.help),
                  <<"E","n","s","u","r","e"," ","t","h","a","t"," ","BACKTICK">> \o red_bold_italic(name)
                      \o <<"BACKTICK"," ","h","a","s"," ","a","l","l"," ","r","e","q","u","i","r","e","d"," ","p","r","o","p","e","r","t","i","e","s"," ","d","e","f","i","n","e","d"," ","i","n"," ","t","h","e"," ","t","y","p","e"," ","BACKTICK">>)

\* C8: in both position-based strategies, with column >= 1, the subject name is the raw
\* text of the first token, in slice order, on the error's line whose span holds
\* column - 1; it overrides the name from the message and later matching tokens are
\* ignored. Missing-parameters always names a subject; property-missing-in-type names
\* one when the message holds a closed type '...' segment, and otherwise returns its
\* fixed text, which has no subject name and looks at no token.
C8_TokenNamesSubject ==
    (Built /\ TheError.code.tag \in PositionalTags /\ TheError.column # 0
           /\ MatchingTokens # {})
        => /\ result.outcome = "returned"
           /\ TheError.code.tag = "MissingParameters" => NamesFunction(FirstMatching.raw)
           /\ TheError.code.tag = "PropertyMissingInType" =>
                IF HasTypeSegment(TheError.message)
                THEN NamesVariable(FirstMatching.raw)
                ELSE result = Returned(Some(Suggestion(
                        << <<"V","e","r","i","f","y"," ","t","h","a","t"," ","t","h","e"," ","o","b","j","e","c","t"," ","s","t","r","u","c","t","u","r","e"," ","i","n","c","l","u","d","e","s"," ","a","l","l"," ","r","e","q","u","i","r","e","d"," ","m","e","m","b","e","r","s"," ","o","f"," ","t","h","e"," ","s","p","e","c","i","f","i","e","d"," ","t","y","p","e",".">> >>,
                        Some(<<"E","n","s","u","r","e"," ","t","h","e"," ","o","b","j","e","c","t"," ","h","a","s"," ","a","l","l"," ","r","e","q","u","i","r","e","d"," ","p","r","o","p","e","r","t","i","e","s"," ","d","e","f","i","n","e","d"," ","i","n"," ","t","h","e"," ","t","y","p","e",".">>))))

\* C9: in both position-based strategies, when no token on the error's line has a span
\* holding column - 1 (an empty slice included), the subject name in the suggestion and
\* the help is the name from the message or else a placeholder noun, never empty.
C9_FallbackNameNotEmpty ==
    (Built /\ TheError.code.tag \in PositionalTags /\ MatchingTokens = {}
           /\ result.outcome = "returned")
        => /\ TheError.code.tag = "MissingParameters" =>
                \E name \in {quoted(TheError, 1, <<"f","u","n","c","t","i","o","n">>)} :
                    name # <<>> /\ NamesFunction(name)
           /\ TheError.code.tag = "PropertyMissingInType" => ~NamesVariable(<<>>)

\* the text from the first occurrence of marker up to the next quote; None without one
LiteralAfter(msg, marker) ==
    LET i == FirstAt(msg, marker)
        from == i + Len(marker)
    IN  IF i = 0 \/ ~\E j \in from..Len(msg) : msg[j] = "'" THEN None
        ELSE Some(SubSeq(msg, from,
                         (CHOOSE j \in from..Len(msg) :
                             msg[j] = "'" /\ \A k \in from..(j - 1) : msg[k] # "'") - 1))
\* the clauses prop: type of a literal { ... }, in order; none for any other text
ClausesOf(lit) ==
    LET t == IF IsSome(lit) THEN trim(Unwrap(lit)) ELSE <<>>
        all == IF t # <<>> /\ Head(t) = "{" /\ t[Len(t)] = "}"
               THEN split(SubSeq(t, 2, Len(t) - 1), ";") ELSE <<>>
    IN  SelectSeq(all, LAMBDA c : trim(c) # <<>> /\ Contains(c, <<":">>))
ClauseKey(c) == trim(Take(trim(c), FirstAt(trim(c), <<":">>)))
ClauseType(c) == trim(Drop(trim(c), FirstAt(trim(c), <<":">>) + 1))
PropertiesOf(lit) == {ClauseKey(ClausesOf(lit)[i]) : i \in 1..Len(ClausesOf(lit))}
\* the type text of property k: that of its last clause
TypeOf(lit, k) ==
    LET cs == ClausesOf(lit)
        last == CHOOSE i \in 1..Len(cs) :
                    ClauseKey(cs[i]) = k /\ \A j \in (i + 1)..Len(cs) : ClauseKey(cs[j]) # k
    IN  ClauseType(cs[last])
ProvidedLiteral == LiteralAfter(TheError.message, <<"A","r","g","u","m","e","n","t"," ","o","f"," ","t","y","p","e"," ","'">>)
ExpectedLiteral == LiteralAfter(TheError.message, <<"t","o"," ","p","a","r","a","m","e","t","e","r"," ","o","f"," ","t","y","p","e"," ","'">>)
\* the properties in both literals with different type texts
Mismatched ==
    {k \in PropertiesOf(ExpectedLiteral) \cap PropertiesOf(ProvidedLiteral) :
        TypeOf(ProvidedLiteral, k) # TypeOf(ExpectedLiteral, k)}
MismatchLine(k) ==
    <<"P","r","o","p","e","r","t","y"," ","BACKTICK">> \o red_bold(k) \o <<"BACKTICK"," ","i","s"," ","p","r","o","v","i","d","e","d"," ","a","s"," ","BACKTICK">>
        \o red_bold(TypeOf(ProvidedLiteral, k)) \o <<"BACKTICK"," ","b","u","t"," ","e","x","p","e","c","t","s"," ","BACKTICK">>
        \o green_bold(TypeOf(ExpectedLiteral, k)) \o <<"BACKTICK",".">>

\* C10: for an inline-type-mismatch error whose message holds both marker phrases, the
\* suggestion lines correspond one to one to the properties that occur in both object
\* literals with different trimmed type texts, each line naming the property, the
\* provided type and the expected type; a literal not of the form { ... } contributes
\* no property, and the list is empty when no property qualifies.
C10_LinesAreTheMismatches ==
    (Built /\ TheError.code.tag = "InlineTypeMismatch"
           /\ Contains(TheError.message, <<"A","r","g","u","m","e","n","t"," ","o","f"," ","t","y","p","e"," ","'">>)
           /\ Contains(TheError.message, <<"t","o"," ","p","a","r","a","m","e","t","e","r"," ","o","f"," ","t","y","p","e"," ","'">>))
        => /\ result.outcome = "returned" /\ IsSome(result.value)
           /\ {TheSuggestion.suggestions[i] : i \in 1..Len(TheSuggestion.suggestions)}
                = {MismatchLine(k) : k \in Mismatched}
           /\ Len(TheSuggestion.suggestions) = Cardinality(Mismatched)

\* two properties differ, a third occurs in one literal only, and two lines are given
C10_Witness ==
    /\ Built /\ TheError.code.tag = "InlineTypeMismatch"
    /\ IsSome(result.value)
    /\ Len(TheSuggestion.suggestions) = 2
    /\ Cardinality(PropertiesOf(ExpectedLiteral)) = 3
    /\ Cardinality(PropertiesOf(ProvidedLiteral)) = 2

\* C11: parse and synthesize are deterministic: a second call on the same line gives
\* the same record, and a second call of synthesize on the same error and tokens gives
\* the same suggestion strings in the same order, whatever order the HashMap of the
\* expected properties is iterated in.
C11_SameInputsSameOutput ==
    /\ (pc = "parsed") => err = parse(line_in)
    /\ Built => \A iteration_order \in IterationOrders(TheError.message) :
                    build(TheError, tokens, iteration_order) = result

RECURSIVE Join(_, _)
\* the pieces of a sequence put together again with sep between them
Join(pieces, sep) ==
    IF pieces = <<>> THEN <<>>
    ELSE IF Len(pieces) = 1 THEN Head(pieces)
    ELSE Head(pieces) \o sep \o Join(Tail(pieces), sep)
ClauseOrders(n) == {f \in [1..n -> 1..n] : \A i, j \in 1..n : f[i] = f[j] => i = j}
\* the texts a literal { c1; c2; ... } becomes when its ';'-separated clauses are permuted
Reorderings(lit) ==
    LET t == trim(lit)
    IN  IF t = <<>> \/ Head(t) # "{" \/ t[Len(t)] # "}" THEN {lit}
        ELSE LET clauses == split(SubSeq(t, 2, Len(t) - 1), ";")
             IN  {<<"{">> \o Join([i \in 1..Len(clauses) |-> clauses[f[i]]], <<";">>) \o <<"}">> :
                     f \in ClauseOrders(Len(clauses))}
InlineMessage(provided, expected) ==
    <<"A","r","g","u","m","e","n","t"," ","o","f"," ","t","y","p","e"," ","'">> \o provided \o <<"'"," ","i","s"," ","n","o","t"," ","a","s","s","i","g","n","a","b","l","e"," ","t","o"," ","p","a","r","a","m","e","t","e","r"," ","o","f"," ","t","y","p","e"," ","'">>
        \o expected \o <<"'",".">>
\* the set of (property, provided type, expected type) the diff reports for a message
Reported(msg, iteration_order) ==
    LET mismatches == Unwrap(parse_ts2345_error(msg, iteration_order))
    IN  {mismatches[i] : i \in 1..Len(mismatches)}
\* the message at hand is made of two literals; every reordering of either one gives
\* the same set of mismatches
ReorderingKeepsMismatches ==
    LET provided == Unwrap(ProvidedLiteral)
        expected == Unwrap(ExpectedLiteral)
    IN  /\ \A p \in Reorderings(provided) :
              \A o \in IterationOrders(InlineMessage(p, expected)) :
                  Reported(InlineMessage(p, expected), o) = Reported(TheError.message, order)
        /\ \A x \in Reorderings(expected) :
              \A o \in IterationOrders(InlineMessage(provided, x)) :
                  Reported(InlineMessage(provided, x), o) = Reported(TheError.message, order)
\* (the strategy ignores its tokens, so the calls with an empty slice are the ones compared)
MadeOfTwoLiterals ==
    /\ Built /\ TheError.code.tag = "InlineTypeMismatch" /\ tokens = <<>>
    /\ IsSome(ProvidedLiteral) /\ IsSome(ExpectedLiteral)
    /\ TheError.message = InlineMessage(Unwrap(ProvidedLiteral), Unwrap(ExpectedLiteral))
\* no two clauses of the literal name the same property
DistinctNames(lit) ==
    \A i, j \in 1..Len(ClausesOf(lit)) :
        ClauseKey(ClausesOf(lit)[i]) = ClauseKey(ClausesOf(lit)[j]) => i = j

\* C12 as stated: for any expected and provided literal, permuting the ';'-separated
\* clauses of either literal in the message gives the same set of reported mismatches.
C12_ClauseOrderIrrelevant ==
    MadeOfTwoLiterals => ReorderingKeepsMismatches

\* C12 (amended): when no literal names a property twice, permuting the ';'-separated
\* clauses of either literal in the message gives the same set of reported
\* (property, provided type, expected type) mismatches. (Of two clauses naming the same
\* property the later one decides its type, so their order matters.)
C12_ClauseOrderIrrelevantForDistinctNames ==
    (MadeOfTwoLiterals /\ DistinctNames(ProvidedLiteral) /\ DistinctNames(ExpectedLiteral))
        => ReorderingKeepsMismatches

\* expected {a: string; b: number} against provided {a: string; b: string}: the one
\* mismatch for b, the same under every clause order
C12_Witness ==
    /\ MadeOfTwoLiterals
    /\ Unwrap(ExpectedLiteral) = <<"{"," ","a",":"," ","s","t","r","i","n","g",";"," ","b",":"," ","n","u","m","b","e","r",";"," ","}">>
    /\ Unwrap(ProvidedLiteral) = <<"{"," ","a",":"," ","s","t","r","i","n","g",";"," ","b",":"," ","s","t","r","i","n","g",";"," ","}">>
    /\ Reported(TheError.message, order) = {<< <<"b">>, <<"s","t","r","i","n","g">>, <<"n","u","m","b","e","r">> >>}
    /\ ReorderingKeepsMismatches

\* the categories whose strategy reads neither the error nor the tokens, and the
\* right-side-arithmetic variant of the parser
FixedAdvisoryTags ==
    {"UnintentionalComparison", "SpreadArgumentMustBeTupleType",
     "LeftSideArithmeticMustBeEnumberable", "RightSideArithmeticMustBeEnumberable",
     "RightSideArithmeticMustBeNumber", "IncompatibleOverload", "MissingReturnValue"}
\* an error of the category with another file, position and message, and no tokens
ReferenceError(code) == TsError(<<"l","i","b","/","o","t","h","e","r",".","t","s">>, MaxLine, MaxCoord, code, <<"'","x","'">>)

\* C13: for each fixed-advisory category (unintentional comparison, invalid spread
\* argument, non-numeric left and right arithmetic operand, incompatible overload, missing
\* return value), any two errors of the category get the same suggestion list and the
\* same help text, whatever their file, line, column, message and tokens are: each gets
\* what one reference error of the category gets.
C13_FixedAdvisory ==
    (Built /\ TheError.code.tag \in FixedAdvisoryTags)
        => result = build(ReferenceError(TheError.code), <<>>, <<>>)

\* an incompatible-overload error at column 0, with a quoted name in its message and
\* tokens on its line, gets the fixed text
C13_Witness ==
    /\ Built /\ TheError.code.tag = "IncompatibleOverload"
    /\ TheError.column = 0 /\ TheError.line = 1
    /\ TheError.message = <<"'","a","'","b","'","c","'","d","'","e","'","f","'","g","'","h","'","i","'","j","'">>
    /\ Len(tokens) = MaxTokens /\ tokens[1].line = 1
    /\ result = Returned(Some(Suggestion(
            << <<"T","h","e"," ","p","r","o","v","i","d","e","d"," ","a","r","g","u","m","e","n","t","s"," ","d","o"," ","n","o","t"," ","m","a","t","c","h"," ","a","n","y"," ","o","v","e","r","l","o","a","d"," ","o","f"," ","t","h","e"," ","f","u","n","c","t","i","o","n",".">> >>,
            Some(<<"C","h","e","c","k"," ","t","h","e"," ","f","u","n","c","t","i","o","n"," ","o","v","e","r","l","o","a","d","s"," ","a","n","d"," ","e","n","s","u","r","e"," ","t","h","a","t"," ","t","h","i","s"," ","s","i","g","n","a","t","u","r","e"," ","a","d","h","e","r","e","s"," ","t","o"," ","t","h","e"," ","p","a","r","e","n","t"," ","s","i","g","n","a","t","u","r","e",".">>))))

\* C14: for a type-mismatch error whose message is Type 'X' is not assignable to type
\* 'Y'. with X and Y free of quotes, synthesize returns exactly one suggestion line,
\* holding X as the source type and then Y as the target type, and the fixed help text.
C14_LineNamesSourceThenTarget ==
    (Built /\ TheError.code.tag = "TypeMismatch")
        => \A x, y \in TypeTexts :
              TheError.message = Assignability(x, y)
                => result = Returned(Some(Suggestion(
                      << <<"T","r","y"," ","c","o","n","v","e","r","t","i","n","g"," ","t","h","i","s"," ","v","a","l","u","e"," ","f","r","o","m"," ","BACKTICK">> \o red_bold(x) \o <<"BACKTICK"," ","t","o"," ","BACKTICK">>
                            \o green_bold(y) \o <<"BACKTICK",".">> >>,
                      Some(<<"E","n","s","u","r","e"," ","t","h","a","t"," ","t","h","e"," ","t","y","p","e","s"," ","a","r","e"," ","c","o","m","p","a","t","i","b","l","e"," ","o","r"," ","p","e","r","f","o","r","m"," ","a","n"," ","e","x","p","l","i","c","i","t"," ","c","o","n","v","e","r","s","i","o","n",".">>))))

\* the line src/app.ts(1,3): error TS2322: Type 'string' is not assignable to type
\* 'number'. has been parsed and its suggestion line holds string and then number
C14_Witness ==
    /\ Built /\ line_in # <<>>
    /\ TheError.code = Known("TypeMismatch")
    /\ TheError.message = Assignability(<<"s","t","r","i","n","g">>, <<"n","u","m","b","e","r">>)
    /\ IsSome(result.value)
    /\ Len(TheSuggestion.suggestions) = 1
    /\ \E i, j \in 1..Len(TheSuggestion.suggestions[1]) :
          /\ i < j
          /\ MatchesAt(TheSuggestion.suggestions[1], <<"s","t","r","i","n","g">>, i)
          /\ MatchesAt(TheSuggestion.suggestions[1], <<"n","u","m","b","e","r">>, j)

\* the message-only categories: for each, the index into the message split on the quote
\* character, and the placeholder noun, of every value its strategy extracts
MessageOnlyTable ==
    [TypeMismatch |-> << <<1, <<"t","y","p","e">> >>, <<3, <<"t","y","p","e">> >> >>,
     NoImplicitAny |-> << <<1, <<"p","a","r","a","m","e","t","e","r">> >> >>,
     PropertyDoesNotExist |-> << <<1, <<"p","r","o","p","e","r","t","y">> >>, <<3, <<"t","y","p","e">> >> >>,
     ObjectIsPossiblyUndefined |-> << <<1, <<"o","b","j","e","c","t">> >> >>,
     DirectCastPotentiallyMistaken |-> << <<1, <<"t","y","p","e">> >>, <<3, <<"t","y","p","e">> >> >>,
     InvalidShadowInScope |-> << <<1, <<"v","a","r","i","a","b","l","e">> >> >>,
     NonExistentModuleImport |-> << <<1, <<"m","o","d","u","l","e">> >> >>,
     ReadonlyPropertyAssignment |-> << <<1, <<"p","r","o","p","e","r","t","y">> >> >>,
     IncorrectInterfaceImplementation |->
        << <<1, <<"c","l","a","s","s">> >>, <<3, <<"i","n","t","e","r","f","a","c","e">> >>, <<5, <<"p","r","o","p","e","r","t","y">> >> >>,
     PropertyInClassNotAssignableToBase |->
        << <<1, <<"p","r","o","p","e","r","t","y">> >>, <<3, <<"t","y","p","e">> >>, <<5, <<"b","a","s","e"," ","t","y","p","e">> >>, <<7, <<"t","y","p","e">> >>,
           <<9, <<"b","a","s","e"," ","t","y","p","e">> >> >>,
     CannotFindIdentifier |-> << <<1, <<"i","d","e","n","t","i","f","i","e","r">> >> >>,
     UncallableExpression |-> << <<1, <<"e","x","p","r","e","s","s","i","o","n">> >> >>,
     InvalidIndexType |-> << <<1, <<"t","y","p","e">> >> >>,
     TypoPropertyOnType |-> << <<1, <<"p","r","o","p","e","r","t","y">> >>, <<3, <<"t","y","p","e">> >>, <<5, <<"p","r","o","p","e","r","t","y">> >> >>]
\* the part at index n (counted from 0) of the message split on the quote character,
\* the placeholder when the message has too few parts
PartOrPlaceholder(msg, n, placeholder) ==
    IF Len(split(msg, "'")) > n THEN split(msg, "'")[n + 1] ELSE placeholder
\* some suggestion line holds the text
SomeLineHolds(text) ==
    \E i \in 1..Len(TheSuggestion.suggestions) :
        text = <<>> \/ Contains(TheSuggestion.suggestions[i], text)
\* the strategy of the category returned a suggestion whose lines hold every value of
\* the table, taken from the message by index or replaced by its placeholder
ExtractsByIndex(tag) ==
    /\ result.outcome = "returned"
    /\ IsSome(result.value)
    /\ \A k \in 1..Len(MessageOnlyTable[tag]) :
          SomeLineHolds(PartOrPlaceholder(TheError.message, MessageOnlyTable[tag][k][1],
                                          MessageOnlyTable[tag][k][2]))

\* C15: in every message-only strategy (every covered category that is neither
\* position-based, object-diff nor fixed-text, type-mismatch included) each extracted
\* value is the part at a fixed odd index of the message split on the quote character;
\* when the message has too few parts the placeholder noun stands in for it, and a
\* suggestion is still returned.
C15_ValuesByIndexOrPlaceholder ==
    (Built /\ TheError.code.tag \in DOMAIN MessageOnlyTable)
        => ExtractsByIndex(TheError.code.tag)

\* the categories no code string maps to
UnmappedTags ==
    {"LeftSideArithmeticMustBeEnumberable", "PropertyInClassNotAssignableToBase",
     "CannotFindIdentifier", "MissingReturnValue", "UncallableExpression",
     "InvalidIndexType", "TypoPropertyOnType"}

\* C16: the dispatch of synthesize is total over the categories classify produces: every
\* error made by parse (one with the right-side-arithmetic category of TS2363 included)
\* is handed to a strategy or gets the explicit no-suggestion outcome, and none carries a
\* category that no code maps to.
C16_DispatchTotal ==
    /\ (pc = "parsed" /\ IsSome(err)) => TheError.code.tag \notin UnmappedTags
    /\ (Built /\ line_in # <<>>) => result.outcome # "no_match_arm"

====
